---- MODULE Spec2Model ----
(***************************************************************************)
(* Navigation core of the assistive-navigation web application.            *)
(*                                                                         *)
(* Two variants of the same state machine are shipped:                     *)
(*   IN  IntegratedNavigation (src/unnamed/part_003), with the arrival     *)
(*       lock `arrived`, `lastNode` and the voice-command effect;          *)
(*   NP  NavigationPage (src/unnamed/part_001), without them.              *)
(* Definitions that model one variant carry its suffix, _IN or _NP.       *)
(*                                                                         *)
(* A session is one run of the navigation effect: its closure variables    *)
(* are the record `nav`.  The browser's speech queue, the React state      *)
(* `destination` and the clock are shared by all sessions.                 *)
(* Functions of the source are operators from a world record               *)
(*   [nav, synth, now, out]                                                *)
(* to a world record; `out` collects, in order, the effects they emit:     *)
(* tone, vibration, speech (which also sets the React state `status` to    *)
(* the spoken text), a bare status update, a cancel of the speech queue.   *)
(*                                                                         *)
(* Besides the closure variables, `nav` holds the session's timers          *)
(* (setupTimeout, movementPromptInterval, pending: the due times of the    *)
(* 350 ms timeouts, oldest first), whether its listeners are attached, and *)
(* two history fields: `doomed`, how many of the oldest pending timeouts    *)
(* were already pending when resetNav or setDestinationHandler last ran,   *)
(* and `prompts`, how many idle prompts the polling timer has spoken since *)
(* the last confirmation that onNodeConfirmed did not ignore.              *)
(*                                                                         *)
(* JavaScript null is modelled by NoNode (for a node id), NoPath (for a    *)
(* path: bfsPath never returns an empty array) and NoTimer (for a timer    *)
(* that is not scheduled).                                                 *)
(***************************************************************************)
EXTENDS Integers, Sequences, FiniteSets, TLC

VARIABLES
  variant,      \* which component is mounted: "IN" or "NP"
  voice,        \* whether the voice-recognition effect is active (IN, browser support)
  destination,  \* React state `destination`
  nav,          \* closure variables of the live navigation session
  stale,        \* torn-down sessions that still have 350 ms timeouts pending
  synth,        \* window.speechSynthesis: utterances playing (head) and queued
  now,          \* Date.now(), in ms since the component was mounted
  out,          \* effects emitted by the last step, in order
  arrivals,     \* history: arrival announcements of the live session since the last
                \*          reset / destination change
  staleArrivals,\* history: those made since then by timeouts of torn-down sessions
  reruns,       \* history: how often the navigation effect has re-run
  event,        \* history: the last step taken, [name, node, from]; for a confirmation
                \*          `from` is the current node the handler found (cameFrom)
  call,         \* a function of the source called on its own: arguments and result
                \*          (NoCall while the page runs)
  objectDetection, \* the ObjectDetection component of the home page (app/page.tsx)
  voiceController  \* the VoiceController component of the home page

vars == <<variant, voice, destination, nav, stale, synth, now, out, arrivals,
          staleArrivals, reruns, event, call, objectDetection, voiceController>>

\* what the navigation page does not touch
elsewhere == <<call, objectDetection, voiceController>>

NoNode == "null"
NoPath == <<>>
NoTimer == -1
NoCall == [fn |-> "none"]
\* a component of the home page while the navigation page is the one shown
NotRendered == [rendered |-> FALSE]

\* ---- bounds of the model -------------------------------------------------
MaxTime == 1900
MaxPending == 2
MaxStale == 1
MaxArrivals == 3
MaxReruns == 1
MaxIdleTime == 11900
MaxSightTime == 700
LateSightFrom == 5600
LateSightUntil == 6300
MaxPrompts == 2
MaxDegree == 2
MaxWords == 3

\* ---- program constants ---------------------------------------------------
stableMs == 500
movementPromptDelayMs == 4500
movementPromptPeriodMs == 700
announceDelayMs == 350
setupDelayMs == 200

\* ---- landmark graphs -----------------------------------------------------
nodes_IN ==
  [ elevator |-> [label |-> "Elevator"],
    washroom |-> [label |-> "Bathroom"],
    mainhall |-> [label |-> "Main hall"],
    exitdoor |-> [label |-> "Exit door"] ]

TargetIndices_IN == 0..4

indexToNode_IN ==
  [ i \in TargetIndices_IN |->
      CASE i = 0 -> "elevator"
        [] i = 1 -> "washroom"
        [] i = 2 -> "mainhall"
        [] i = 3 -> "exitdoor"
        [] i = 4 -> "exitdoor" ]

ACTIVE_NODES_IN == {"elevator", "washroom", "mainhall", "exitdoor"}

\* the edge table without the edges that lead back; C34 does not hold of it
edges_IN_oneWay ==
  [ elevator |-> << [to |-> "washroom", say |-> "Go right and walk straight."] >>,
    washroom |-> << [to |-> "mainhall", say |-> "Walk straight."] >>,
    mainhall |-> << [to |-> "exitdoor", say |-> "Go right and walk straight."] >> ]

edges_IN ==
  [ elevator |-> << [to |-> "washroom", say |-> "Go right and walk straight."] >>,
    washroom |-> << [to |-> "mainhall", say |-> "Walk straight."],
                    [to |-> "elevator", say |-> "Walk straight."] >>,
    mainhall |-> << [to |-> "exitdoor", say |-> "Go right and walk straight."],
                    [to |-> "washroom", say |-> "Take a left then walk straight."] >>,
    exitdoor |-> << [to |-> "mainhall", say |-> "Do a 180, then walk straight."] >> ]

DestOptions_IN == {"elevator", "washroom", "mainhall", "exitdoor"}

nodes_NP ==
  [ two      |-> [label |-> "2 sign"],
    washroom |-> [label |-> "Washroom"],
    couch    |-> [label |-> "Couch"],
    painting |-> [label |-> "Painting"],
    caution  |-> [label |-> "Caution sign"],
    door     |-> [label |-> "Door"] ]

TargetIndices_NP == 0..5

indexToNode_NP ==
  [ i \in TargetIndices_NP |->
      CASE i = 0 -> "two"
        [] i = 1 -> "washroom"
        [] i = 2 -> "couch"
        [] i = 3 -> "painting"
        [] i = 4 -> "caution"
        [] i = 5 -> "door" ]

ACTIVE_NODES_NP == {"two", "washroom", "caution", "door"}

edges_NP ==
  [ two      |-> << [to |-> "washroom",
                     say |-> "Landmark confirmed: 2 sign. Take a right to reach the washroom."] >>,
    washroom |-> << [to |-> "caution",
                     say |-> "Landmark confirmed: washroom. Go straight to reach the caution sign."],
                    [to |-> "two",
                     say |-> "Landmark confirmed: washroom. Go straight to reach the 2 sign."] >>,
    caution  |-> << [to |-> "door",
                     say |-> "Landmark confirmed: caution sign. Take a right to reach the door."],
                    [to |-> "washroom",
                     say |-> "Landmark confirmed: caution sign. Take a left to reach the washroom."] >>,
    door     |-> << [to |-> "caution",
                     say |-> "Landmark confirmed: door. Turn around, then go straight to reach the caution sign."] >> ]

DestOptions_NP == {"two", "washroom", "caution", "door"}

\* ---- path planner --------------------------------------------------------
\* edges[cur] || []
EdgesOf(E, n) == IF n \in DOMAIN E THEN E[n] ELSE <<>>

\* the inner loop with `break` in place of `continue`; C25 does not hold of it
RECURSIVE BfsScan_break(_, _, _, _, _, _, _)
BfsScan_break(es, i, cur, goal, q, prev, seen) ==
  IF i > Len(es) THEN [found |-> FALSE, q |-> q, prev |-> prev, seen |-> seen]
  ELSE LET nxt == es[i].to IN
       IF nxt \in seen THEN [found |-> FALSE, q |-> q, prev |-> prev, seen |-> seen]
       ELSE LET seen2 == seen \cup {nxt}
                prev2 == (nxt :> cur) @@ prev
            IN IF nxt = goal
               THEN [found |-> TRUE, q |-> q, prev |-> prev2, seen |-> seen2]
               ELSE BfsScan_break(es, i + 1, cur, goal, Append(q, nxt), prev2, seen2)

\* the inner loop scanning the edges last to first; C27 does not hold of it
RECURSIVE BfsScan_reversed(_, _, _, _, _, _, _)
BfsScan_reversed(es, i, cur, goal, q, prev, seen) ==
  IF i > Len(es) THEN [found |-> FALSE, q |-> q, prev |-> prev, seen |-> seen]
  ELSE LET nxt == es[Len(es) + 1 - i].to IN
       IF nxt \in seen THEN BfsScan_reversed(es, i + 1, cur, goal, q, prev, seen)
       ELSE LET seen2 == seen \cup {nxt}
                prev2 == (nxt :> cur) @@ prev
            IN IF nxt = goal
               THEN [found |-> TRUE, q |-> q, prev |-> prev2, seen |-> seen2]
               ELSE BfsScan_reversed(es, i + 1, cur, goal, Append(q, nxt), prev2, seen2)

\* the inner `for (const e of edges[cur] || [])` loop, from edge i on
RECURSIVE BfsScan(_, _, _, _, _, _, _)
BfsScan(es, i, cur, goal, q, prev, seen) ==
  IF i > Len(es) THEN [found |-> FALSE, q |-> q, prev |-> prev, seen |-> seen]
  ELSE LET nxt == es[i].to IN
       IF nxt \in seen THEN BfsScan(es, i + 1, cur, goal, q, prev, seen)
       ELSE LET seen2 == seen \cup {nxt}
                prev2 == (nxt :> cur) @@ prev
            IN IF nxt = goal
               THEN [found |-> TRUE, q |-> q, prev |-> prev2, seen |-> seen2]
               ELSE BfsScan(es, i + 1, cur, goal, Append(q, nxt), prev2, seen2)

\* the walk back stopping one node early; C24 does not hold of it
RECURSIVE BfsWalkBack_noStart(_, _, _, _)
BfsWalkBack_noStart(prev, start, p, acc) ==
  IF p = start \/ prev[p] = start THEN acc
  ELSE BfsWalkBack_noStart(prev, start, prev[p], <<prev[p]>> \o acc)

\* `while (p !== start) { p = prev[p]; path.push(p) }  path.reverse()`
RECURSIVE BfsWalkBack(_, _, _, _)
BfsWalkBack(prev, start, p, acc) ==
  IF p = start THEN acc
  ELSE BfsWalkBack(prev, start, prev[p], <<prev[p]>> \o acc)

\* the outer `while (q.length)` loop
RECURSIVE BfsLoop(_, _, _, _, _, _)
BfsLoop(E, start, goal, q, prev, seen) ==
  IF q = <<>> THEN NoPath
  ELSE LET cur == Head(q)
           r == BfsScan(EdgesOf(E, cur), 1, cur, goal, Tail(q), prev, seen)
       IN IF r.found THEN BfsWalkBack(r.prev, start, goal, <<goal>>)
          ELSE BfsLoop(E, start, goal, r.q, r.prev, r.seen)

\* bfsPath without the `start === goal` test; C26 does not hold of it
bfsPath_noSelfTest(E, start, goal) ==
  BfsLoop(E, start, goal, <<start>>, <<>>, {start})

bfsPath(E, start, goal) ==
  IF start = goal THEN <<start>>
  ELSE BfsLoop(E, start, goal, <<start>>, <<>>, {start})

bfsPath_IN(start, goal) == bfsPath(edges_IN, start, goal)
bfsPath_NP(start, goal) == bfsPath(edges_NP, start, goal)

\* (edges[from] || []).find((x) => x.to === to)
RECURSIVE FindEdge(_, _, _)
FindEdge(es, i, to) ==
  IF i > Len(es) THEN 0
  ELSE IF es[i].to = to THEN i ELSE FindEdge(es, i + 1, to)

getEdgeInstruction_IN(from, to) ==
  LET es == EdgesOf(edges_IN, from)
      k == FindEdge(es, 1, to)
  IN IF k # 0 THEN es[k].say ELSE "Keep moving forward with caution."

\* getEdgeInstruction that never finds the edge; C9 does not hold of it
getEdgeInstruction_NP_noEdge(from, to) ==
  "Landmark confirmed. Continue forward carefully and scan again."

getEdgeInstruction_NP(from, to) ==
  LET es == EdgesOf(edges_NP, from)
      k == FindEdge(es, 1, to)
  IN IF k # 0 THEN es[k].say
     ELSE "Landmark confirmed. Continue forward carefully and scan again."

\* ---- effects ---------------------------------------------------------------
Beep == [kind |-> "beep", msg |-> "", interrupt |-> FALSE]
Vibrate == [kind |-> "vibrate", msg |-> "", interrupt |-> FALSE]
Cancel == [kind |-> "cancel", msg |-> "", interrupt |-> FALSE]
\* speak(msg, {interrupt}): lastSpoken = msg, setStatus(msg), then the utterance
Speech(msg, interrupt) == [kind |-> "speak", msg |-> msg, interrupt |-> interrupt]
\* setStatus(msg) alone, and an utterance that does not pass through speak()
SetStatus(msg) == [kind |-> "status", msg |-> msg, interrupt |-> FALSE]
Utter(msg) == [kind |-> "utter", msg |-> msg, interrupt |-> TRUE]

Emit(w, e) == [w EXCEPT !.out = Append(@, e)]

\* one more idle prompt since the last confirmation (history, capped)
Prompted(n) == IF n < MaxPrompts THEN n + 1 ELSE n

\* ======================= IntegratedNavigation ===============================

\* the closure variables right after the navigation effect has run at time t
NewSession_IN(dest, t) ==
  [ destinationNode |-> dest,
    currentNode |-> NoNode,
    lastNode |-> NoNode,
    path |-> NoPath,
    pathStep |-> 0,
    lastSpoken |-> "",
    arrived |-> FALSE,
    segmentPrompted |-> FALSE,
    lastConfirmedAt |-> 0,
    candidate |-> NoNode,
    candidateSince |-> 0,
    movementPromptInterval |-> t + movementPromptPeriodMs,
    setupTimeout |-> t + setupDelayMs,
    pending |-> <<>>,
    doomed |-> 0,
    prompts |-> 0,
    attached |-> FALSE ]

speak_IN(w, msg, interrupt) ==
  Emit([w EXCEPT !.nav.lastSpoken = msg,
                 !.synth = Append(IF interrupt THEN <<>> ELSE @, msg)],
       Speech(msg, interrupt))

\* finishArrival that does not take the arrival lock; C5 does not hold of it
finishArrival_IN_noLock(w, msg) ==
  speak_IN([w EXCEPT !.nav.path = NoPath,
                     !.nav.pathStep = 0,
                     !.nav.segmentPrompted = TRUE],
           msg \o " Choose next destination.", TRUE)

finishArrival_IN(w, msg) ==
  speak_IN([w EXCEPT !.nav.arrived = TRUE,
                     !.nav.path = NoPath,
                     !.nav.pathStep = 0,
                     !.nav.segmentPrompted = TRUE],
           msg \o " Choose next destination.", TRUE)

\* beep that plays nothing; C19 does not hold of it
beep_IN_silent(w) == w

beep_IN(w) == Emit(w, Beep)

vibrate_IN(w) == Emit(w, Vibrate)

\* resetNav that leaves the arrival lock in place; C10 does not hold of it
resetNav_IN_keepArrived(w) ==
  speak_IN([w EXCEPT !.nav.currentNode = NoNode,
                     !.nav.lastNode = NoNode,
                     !.nav.path = NoPath,
                     !.nav.pathStep = 0,
                     !.nav.segmentPrompted = FALSE,
                     !.nav.lastConfirmedAt = 0,
                     !.nav.doomed = Len(w.nav.pending)],
           "Pick a destination to start.", TRUE)

resetNav_IN(w) ==
  speak_IN([w EXCEPT !.nav.currentNode = NoNode,
                     !.nav.lastNode = NoNode,
                     !.nav.path = NoPath,
                     !.nav.pathStep = 0,
                     !.nav.segmentPrompted = FALSE,
                     !.nav.lastConfirmedAt = 0,
                     !.nav.doomed = Len(w.nav.pending),
                     !.nav.arrived = FALSE],
           "Pick a destination to start.", TRUE)

setDestinationHandler_IN(w, newDest) ==
  speak_IN([w EXCEPT !.nav.destinationNode = newDest,
                     !.nav.currentNode = NoNode,
                     !.nav.lastNode = NoNode,
                     !.nav.path = NoPath,
                     !.nav.pathStep = 0,
                     !.nav.segmentPrompted = FALSE,
                     !.nav.lastConfirmedAt = 0,
                     !.nav.doomed = Len(w.nav.pending),
                     !.nav.arrived = FALSE],
           "Destination set to " \o nodes_IN[newDest].label
             \o ". Scan the room so we can locate you.", TRUE)

ArrivalMsg_IN(dest) == "You have arrived at " \o nodes_IN[dest].label \o "."

InstructionMsg_IN(from, to) ==
  "You are at " \o nodes_IN[from].label \o ". " \o getEdgeInstruction_IN(from, to)

\* announceNextInstruction that does nothing at the final index; C35 does not hold of it
announceNextInstruction_IN_silentAtEnd(w) ==
  IF w.nav.path = NoPath \/ w.nav.currentNode = NoNode THEN w
  ELSE IF w.nav.pathStep >= Len(w.nav.path) - 1 THEN w
       ELSE speak_IN(w, InstructionMsg_IN(w.nav.path[w.nav.pathStep + 1],
                                          w.nav.path[w.nav.pathStep + 2]), TRUE)

announceNextInstruction_IN(w) ==
  IF w.nav.path = NoPath \/ w.nav.currentNode = NoNode THEN w
  ELSE IF w.nav.pathStep >= Len(w.nav.path) - 1
       THEN finishArrival_IN(w, ArrivalMsg_IN(w.nav.destinationNode))
       ELSE speak_IN(w, InstructionMsg_IN(w.nav.path[w.nav.pathStep + 1],
                                          w.nav.path[w.nav.pathStep + 2]), TRUE)

\* the result of acceptStable and the state it leaves
acceptStable_IN(w, nodeId) ==
  IF w.nav.candidate # nodeId
  THEN [ok |-> FALSE,
        w |-> [w EXCEPT !.nav.candidate = nodeId, !.nav.candidateSince = w.now]]
  ELSE [ok |-> w.now - w.nav.candidateSince >= stableMs, w |-> w]

\* maybeGiveMovementPrompt without the 4500 ms test; C21 does not hold of it
maybeGiveMovementPrompt_IN_noDelay(w) ==
  IF w.nav.arrived THEN w
  ELSE IF w.nav.currentNode = NoNode THEN w
  ELSE IF w.nav.path = NoPath THEN w
  ELSE IF w.nav.segmentPrompted THEN w
  ELSE IF w.synth # <<>> THEN w
  ELSE speak_IN([w EXCEPT !.nav.segmentPrompted = TRUE,
                          !.nav.prompts = Prompted(@)],
                "Keep moving forward with caution.", FALSE)

maybeGiveMovementPrompt_IN(w) ==
  IF w.nav.arrived THEN w
  ELSE IF w.nav.currentNode = NoNode THEN w
  ELSE IF w.nav.path = NoPath THEN w
  ELSE IF w.nav.segmentPrompted THEN w
  ELSE IF w.now - w.nav.lastConfirmedAt < movementPromptDelayMs THEN w
  ELSE IF w.synth # <<>> THEN w
  ELSE speak_IN([w EXCEPT !.nav.segmentPrompted = TRUE,
                          !.nav.prompts = Prompted(@)],
                "Keep moving forward with caution.", FALSE)

\* startRoutingFrom that plans from the destination to the landmark; C8 does not
\* hold of it
startRoutingFrom_IN_reversed(w, nodeId) ==
  LET p == bfsPath_IN(w.nav.destinationNode, nodeId)
      w1 == [w EXCEPT !.nav.lastNode = w.nav.currentNode,
                      !.nav.currentNode = nodeId,
                      !.nav.path = p,
                      !.nav.pathStep = 0,
                      !.nav.segmentPrompted = FALSE,
                      !.nav.lastConfirmedAt = w.now]
  IN IF p = NoPath THEN speak_IN(w1, "No route found from here.", TRUE)
     ELSE announceNextInstruction_IN(w1)

startRoutingFrom_IN(w, nodeId) ==
  LET p == bfsPath_IN(nodeId, w.nav.destinationNode)
      w1 == [w EXCEPT !.nav.lastNode = w.nav.currentNode,
                      !.nav.currentNode = nodeId,
                      !.nav.path = p,
                      !.nav.pathStep = 0,
                      !.nav.segmentPrompted = FALSE,
                      !.nav.lastConfirmedAt = w.now]
  IN IF p = NoPath THEN speak_IN(w1, "No route found from here.", TRUE)
     ELSE announceNextInstruction_IN(w1)

bathroomArrivalMessage_IN(w, cameFrom) ==
  LET turn == IF cameFrom = "elevator" THEN "Go left." ELSE "Go right." IN
  finishArrival_IN(w, "You are at " \o nodes_IN["washroom"].label \o ". " \o turn
    \o " The door is in front of you. Walk with caution and open the door to enter.")

\* setTimeout(announceNextInstruction, 350)
setTimeoutAnnounce(w) ==
  [w EXCEPT !.nav.pending = Append(@, w.now + announceDelayMs)]

\* the advance branch without the update of currentNode; C7 does not hold of it
advance_IN_noMove(w, nodeId, cameFrom) ==
  LET w1 == [w EXCEPT !.nav.pathStep = @ + 1,
                      !.nav.lastNode = cameFrom]
  IN IF w1.nav.destinationNode = "washroom" /\ nodeId = "washroom"
     THEN bathroomArrivalMessage_IN(w1, w1.nav.lastNode)
     ELSE announceNextInstruction_IN(w1)

\* the branch of onNodeConfirmed taken when nodeId is the expected next node
advance_IN(w, nodeId, cameFrom) ==
  LET w1 == [w EXCEPT !.nav.pathStep = @ + 1,
                      !.nav.lastNode = cameFrom,
                      !.nav.currentNode = nodeId]
  IN IF w1.nav.destinationNode = "washroom" /\ nodeId = "washroom"
     THEN bathroomArrivalMessage_IN(w1, w1.nav.lastNode)
     ELSE announceNextInstruction_IN(w1)

\* the re-route branch that keeps the old path; C6 does not hold of it
reroute_IN_oldPath(w, nodeId, cameFrom) ==
  LET p == w.nav.path
      w1 == [w EXCEPT !.nav.lastNode = cameFrom,
                      !.nav.currentNode = nodeId,
                      !.nav.path = p,
                      !.nav.pathStep = 0]
  IN IF p = NoPath THEN speak_IN(w1, "I cannot find a route from here.", TRUE)
     ELSE IF w1.nav.destinationNode = "washroom" /\ nodeId = "washroom"
          THEN bathroomArrivalMessage_IN(w1, w1.nav.lastNode)
          ELSE setTimeoutAnnounce(
                 speak_IN(w1, "You are at " \o nodes_IN[nodeId].label \o ". Re routing.", TRUE))

\* the branch of onNodeConfirmed taken when nodeId is off the route
reroute_IN(w, nodeId, cameFrom) ==
  LET p == bfsPath_IN(nodeId, w.nav.destinationNode)
      w1 == [w EXCEPT !.nav.lastNode = cameFrom,
                      !.nav.currentNode = nodeId,
                      !.nav.path = p,
                      !.nav.pathStep = 0]
  IN IF p = NoPath THEN speak_IN(w1, "I cannot find a route from here.", TRUE)
     ELSE IF w1.nav.destinationNode = "washroom" /\ nodeId = "washroom"
          THEN bathroomArrivalMessage_IN(w1, w1.nav.lastNode)
          ELSE setTimeoutAnnounce(
                 speak_IN(w1, "You are at " \o nodes_IN[nodeId].label \o ". Re routing.", TRUE))

\* ignored_IN with the arrival lock left out; C2 does not hold of it
ignored_IN_noLock(w, nodeId) == nodeId \notin ACTIVE_NODES_IN

\* the two early returns of onNodeConfirmed
ignored_IN(w, nodeId) == nodeId \notin ACTIVE_NODES_IN \/ w.nav.arrived

onNodeConfirmed_IN(w, nodeId) ==
  IF ignored_IN(w, nodeId) THEN w
  ELSE
    LET cameFrom == w.nav.currentNode
        w1 == vibrate_IN(beep_IN([w EXCEPT !.nav.segmentPrompted = FALSE,
                                           !.nav.prompts = 0,
                                           !.nav.lastConfirmedAt = w.now]))
    IN IF w1.nav.currentNode = NoNode \/ w1.nav.path = NoPath
       THEN startRoutingFrom_IN(w1, nodeId)
       ELSE IF w1.nav.pathStep < Len(w1.nav.path) - 1
               /\ nodeId = w1.nav.path[w1.nav.pathStep + 2]
            THEN advance_IN(w1, nodeId, cameFrom)
            ELSE IF nodeId # w1.nav.currentNode
                 THEN reroute_IN(w1, nodeId, cameFrom)
                 ELSE announceNextInstruction_IN(w1)

onTargetFound_IN(w, targetIndex) ==
  IF targetIndex \notin DOMAIN indexToNode_IN THEN w
  ELSE LET nodeId == indexToNode_IN[targetIndex]
           a == acceptStable_IN(w, nodeId)
       IN IF ~a.ok THEN a.w ELSE onNodeConfirmed_IN(a.w, nodeId)

handleRepeat_IN(w) ==
  IF w.nav.lastSpoken # "" THEN speak_IN(w, w.nav.lastSpoken, TRUE) ELSE w

\* the body of the setupTimeout callback: listeners attached, then resetNav()
setup_IN(w) ==
  resetNav_IN([w EXCEPT !.nav.attached = TRUE, !.nav.setupTimeout = NoTimer])

\* the cleanup returned by the navigation effect
cleanup_IN(n) ==
  [n EXCEPT !.setupTimeout = NoTimer,
            !.movementPromptInterval = NoTimer,
            !.attached = FALSE]

\* ========================== NavigationPage ==================================

\* a closure whose destinationNode starts at the default rather than at the React
\* state `destination`; C11 does not hold of it
NewSession_NP_defaultDest(dest, t) ==
  [ destinationNode |-> "two",
    currentNode |-> NoNode,
    path |-> NoPath,
    pathStep |-> 0,
    lastSpoken |-> "",
    segmentPrompted |-> FALSE,
    lastConfirmedAt |-> 0,
    candidate |-> NoNode,
    candidateSince |-> 0,
    movementPromptInterval |-> t + movementPromptPeriodMs,
    setupTimeout |-> t + setupDelayMs,
    pending |-> <<>>,
    doomed |-> 0,
    prompts |-> 0,
    attached |-> FALSE ]

NewSession_NP(dest, t) ==
  [ destinationNode |-> dest,
    currentNode |-> NoNode,
    path |-> NoPath,
    pathStep |-> 0,
    lastSpoken |-> "",
    segmentPrompted |-> FALSE,
    lastConfirmedAt |-> 0,
    candidate |-> NoNode,
    candidateSince |-> 0,
    movementPromptInterval |-> t + movementPromptPeriodMs,
    setupTimeout |-> t + setupDelayMs,
    pending |-> <<>>,
    doomed |-> 0,
    prompts |-> 0,
    attached |-> FALSE ]

speak_NP(w, msg, interrupt) ==
  Emit([w EXCEPT !.nav.lastSpoken = msg,
                 !.synth = Append(IF interrupt THEN <<>> ELSE @, msg)],
       Speech(msg, interrupt))

beep_NP(w) == Emit(w, Beep)

vibrate_NP(w) == Emit(w, Vibrate)

\* resetNav that keeps the route; C13 does not hold of it
resetNav_NP_keepPath(w) ==
  speak_NP([w EXCEPT !.nav.currentNode = NoNode,
                     !.nav.segmentPrompted = FALSE,
                     !.nav.lastConfirmedAt = 0,
                     !.nav.doomed = Len(w.nav.pending)],
           "Pick a destination, then scan any landmark to start.", TRUE)

\* resetNav that also forgets the debouncer's candidate; C37 does not hold of it
resetNav_NP_newWindow(w) ==
  speak_NP([w EXCEPT !.nav.currentNode = NoNode,
                     !.nav.path = NoPath,
                     !.nav.pathStep = 0,
                     !.nav.segmentPrompted = FALSE,
                     !.nav.lastConfirmedAt = 0,
                     !.nav.doomed = Len(w.nav.pending),
                     !.nav.candidate = NoNode,
                     !.nav.candidateSince = 0],
           "Pick a destination, then scan any landmark to start.", TRUE)

resetNav_NP(w) ==
  speak_NP([w EXCEPT !.nav.currentNode = NoNode,
                     !.nav.path = NoPath,
                     !.nav.pathStep = 0,
                     !.nav.segmentPrompted = FALSE,
                     !.nav.lastConfirmedAt = 0,
                     !.nav.doomed = Len(w.nav.pending)],
           "Pick a destination, then scan any landmark to start.", TRUE)

setDestinationHandler_NP(w, newDest) ==
  speak_NP([w EXCEPT !.nav.destinationNode = newDest,
                     !.nav.currentNode = NoNode,
                     !.nav.path = NoPath,
                     !.nav.pathStep = 0,
                     !.nav.segmentPrompted = FALSE,
                     !.nav.lastConfirmedAt = 0,
                     !.nav.doomed = Len(w.nav.pending)],
           "Destination set to " \o nodes_NP[newDest].label
             \o ". Scan any landmark to start.", TRUE)

ArrivalMsg_NP == "You have arrived."

\* announceNextInstruction that says nothing at the final index; C14 does not hold of it
announceNextInstruction_NP_silentAtEnd(w) ==
  IF w.nav.path = NoPath \/ w.nav.pathStep >= Len(w.nav.path) - 1 THEN w
  ELSE speak_NP(w, getEdgeInstruction_NP(w.nav.path[w.nav.pathStep + 1],
                                         w.nav.path[w.nav.pathStep + 2]), TRUE)

announceNextInstruction_NP(w) ==
  IF w.nav.path = NoPath THEN w
  ELSE IF w.nav.pathStep >= Len(w.nav.path) - 1
       THEN speak_NP(w, ArrivalMsg_NP, TRUE)
       ELSE speak_NP(w, getEdgeInstruction_NP(w.nav.path[w.nav.pathStep + 1],
                                              w.nav.path[w.nav.pathStep + 2]), TRUE)

\* acceptStable that restarts the window once it has accepted; C16 does not hold of it
acceptStable_NP_consume(w, nodeId) ==
  IF w.nav.candidate # nodeId
  THEN [ok |-> FALSE,
        w |-> [w EXCEPT !.nav.candidate = nodeId, !.nav.candidateSince = w.now]]
  ELSE IF w.now - w.nav.candidateSince >= stableMs
       THEN [ok |-> TRUE, w |-> [w EXCEPT !.nav.candidateSince = w.now]]
       ELSE [ok |-> FALSE, w |-> w]

acceptStable_NP(w, nodeId) ==
  IF w.nav.candidate # nodeId
  THEN [ok |-> FALSE,
        w |-> [w EXCEPT !.nav.candidate = nodeId, !.nav.candidateSince = w.now]]
  ELSE [ok |-> w.now - w.nav.candidateSince >= stableMs, w |-> w]

\* maybeGiveMovementPrompt that interrupts; C23 does not hold of it
maybeGiveMovementPrompt_NP_interrupt(w) ==
  IF w.nav.currentNode = NoNode THEN w
  ELSE IF w.nav.path = NoPath THEN w
  ELSE IF w.nav.segmentPrompted THEN w
  ELSE IF w.now - w.nav.lastConfirmedAt < movementPromptDelayMs THEN w
  ELSE speak_NP([w EXCEPT !.nav.segmentPrompted = TRUE,
                          !.nav.prompts = Prompted(@)],
                "Keep moving forward carefully.", TRUE)

\* maybeGiveMovementPrompt that does not mark the segment; C20 does not hold of it
maybeGiveMovementPrompt_NP_noMark(w) ==
  IF w.nav.currentNode = NoNode THEN w
  ELSE IF w.nav.path = NoPath THEN w
  ELSE IF w.nav.segmentPrompted THEN w
  ELSE IF w.now - w.nav.lastConfirmedAt < movementPromptDelayMs THEN w
  ELSE speak_NP([w EXCEPT !.nav.prompts = Prompted(@)],
                "Keep moving forward carefully.", FALSE)

maybeGiveMovementPrompt_NP(w) ==
  IF w.nav.currentNode = NoNode THEN w
  ELSE IF w.nav.path = NoPath THEN w
  ELSE IF w.nav.segmentPrompted THEN w
  ELSE IF w.now - w.nav.lastConfirmedAt < movementPromptDelayMs THEN w
  ELSE speak_NP([w EXCEPT !.nav.segmentPrompted = TRUE,
                          !.nav.prompts = Prompted(@)],
                "Keep moving forward carefully.", FALSE)

startRoutingFrom_NP(w, nodeId) ==
  LET p == bfsPath_NP(nodeId, w.nav.destinationNode)
      w1 == [w EXCEPT !.nav.currentNode = nodeId,
                      !.nav.path = p,
                      !.nav.pathStep = 0,
                      !.nav.segmentPrompted = FALSE,
                      !.nav.lastConfirmedAt = w.now]
  IN IF p = NoPath THEN speak_NP(w1, "No route found from here.", TRUE)
     ELSE setTimeoutAnnounce(
            speak_NP(w1, "Starting at " \o nodes_NP[nodeId].label \o ".", TRUE))

\* the advance branch without the update of currentNode; C33 does not hold of it
advance_NP_noMove(w, nodeId) ==
  announceNextInstruction_NP([w EXCEPT !.nav.pathStep = @ + 1])

\* the branch of onNodeConfirmed taken when nodeId is the expected next node
advance_NP(w, nodeId) ==
  announceNextInstruction_NP([w EXCEPT !.nav.pathStep = @ + 1,
                                       !.nav.currentNode = nodeId])

\* the re-route branch without `pathStep = 0`; C4 does not hold of it
reroute_NP_keepStep(w, nodeId) ==
  LET p == bfsPath_NP(nodeId, w.nav.destinationNode)
      w1 == [w EXCEPT !.nav.currentNode = nodeId,
                      !.nav.path = p]
  IN IF p = NoPath THEN speak_NP(w1, "I cannot find a route from here.", TRUE)
     ELSE setTimeoutAnnounce(
            speak_NP(w1, "Re routing from " \o nodes_NP[nodeId].label \o ".", TRUE))

\* the branch of onNodeConfirmed taken when nodeId is off the route
reroute_NP(w, nodeId) ==
  LET p == bfsPath_NP(nodeId, w.nav.destinationNode)
      w1 == [w EXCEPT !.nav.currentNode = nodeId,
                      !.nav.path = p,
                      !.nav.pathStep = 0]
  IN IF p = NoPath THEN speak_NP(w1, "I cannot find a route from here.", TRUE)
     ELSE setTimeoutAnnounce(
            speak_NP(w1, "Re routing from " \o nodes_NP[nodeId].label \o ".", TRUE))

\* onNodeConfirmed without the ACTIVE_NODES test; C18 does not hold of it
onNodeConfirmed_NP_noFilter(w, nodeId) ==
  LET w1 == vibrate_NP(beep_NP(
              Emit([w EXCEPT !.synth = <<>>,
                             !.nav.lastConfirmedAt = w.now,
                             !.nav.segmentPrompted = FALSE,
                             !.nav.prompts = 0], Cancel)))
  IN IF w1.nav.currentNode = NoNode \/ w1.nav.path = NoPath
     THEN startRoutingFrom_NP(w1, nodeId)
     ELSE IF w1.nav.pathStep < Len(w1.nav.path) - 1
             /\ nodeId = w1.nav.path[w1.nav.pathStep + 2]
          THEN advance_NP(w1, nodeId)
          ELSE IF nodeId # w1.nav.currentNode
               THEN reroute_NP(w1, nodeId)
               ELSE announceNextInstruction_NP(w1)

onNodeConfirmed_NP(w, nodeId) ==
  IF nodeId \notin ACTIVE_NODES_NP THEN w
  ELSE
    LET w1 == vibrate_NP(beep_NP(
                Emit([w EXCEPT !.synth = <<>>,
                               !.nav.lastConfirmedAt = w.now,
                               !.nav.segmentPrompted = FALSE,
                               !.nav.prompts = 0], Cancel)))
    IN IF w1.nav.currentNode = NoNode \/ w1.nav.path = NoPath
       THEN startRoutingFrom_NP(w1, nodeId)
       ELSE IF w1.nav.pathStep < Len(w1.nav.path) - 1
               /\ nodeId = w1.nav.path[w1.nav.pathStep + 2]
            THEN advance_NP(w1, nodeId)
            ELSE IF nodeId # w1.nav.currentNode
                 THEN reroute_NP(w1, nodeId)
                 ELSE announceNextInstruction_NP(w1)

onTargetFound_NP(w, targetIndex) ==
  IF targetIndex \notin DOMAIN indexToNode_NP THEN w
  ELSE LET nodeId == indexToNode_NP[targetIndex]
           a == acceptStable_NP(w, nodeId)
       IN IF ~a.ok THEN a.w ELSE onNodeConfirmed_NP(a.w, nodeId)

handleRepeat_NP(w) ==
  IF w.nav.lastSpoken # "" THEN speak_NP(w, w.nav.lastSpoken, TRUE) ELSE w

setup_NP(w) ==
  resetNav_NP([w EXCEPT !.nav.attached = TRUE, !.nav.setupTimeout = NoTimer])

cleanup_NP(n) ==
  [n EXCEPT !.setupTimeout = NoTimer,
            !.movementPromptInterval = NoTimer,
            !.attached = FALSE]

\* ============================ state machine =================================

World == [nav |-> nav, synth |-> synth, now |-> now, out |-> <<>>]

SeqRange(q) == {q[i] : i \in 1..Len(q)}

\* every timer that is scheduled, of the live session and of torn-down ones
Deadlines ==
  ({nav.setupTimeout, nav.movementPromptInterval} \ {NoTimer})
    \cup SeqRange(nav.pending)
    \cup UNION {SeqRange(stale[k].pending) : k \in 1..Len(stale)}

ArrivalMsgs ==
  {ArrivalMsg_IN(d) \o " Choose next destination." : d \in DOMAIN nodes_IN}
    \cup {"You are at Bathroom. " \o t
            \o " The door is in front of you. Walk with caution and open the door to enter."
            \o " Choose next destination." : t \in {"Go left.", "Go right."}}
    \cup {ArrivalMsg_NP}

IsArrival(e) == e.kind = "speak" /\ e.msg \in ArrivalMsgs

CountArrivals(o) == Cardinality({i \in 1..Len(o) : IsArrival(o[i])})

Counted(n) == IF n > MaxArrivals THEN MaxArrivals ELSE n

Event(name, node) == [name |-> name, node |-> node, from |-> NoNode]

\* the step's result r becomes the state; the 350 ms timeouts stay within the bound
Commit(r) ==
  /\ Len(r.nav.pending) <= MaxPending
  /\ nav' = r.nav
  /\ synth' = r.synth
  /\ out' = r.out

\* the component has just been mounted
Mounted ==
  /\ variant \in {"IN", "NP"}
  /\ voice \in (IF variant = "IN" THEN BOOLEAN ELSE {FALSE})
  /\ destination = (IF variant = "IN" THEN "exitdoor" ELSE "two")
  /\ nav = (IF variant = "IN" THEN NewSession_IN(destination, 0)
                              ELSE NewSession_NP(destination, 0))
  /\ stale = <<>>
  /\ synth = <<>>
  /\ now = 0
  /\ out = <<>>
  /\ arrivals = 0
  /\ staleArrivals = 0
  /\ reruns = 0
  /\ event = Event("mount", NoNode)

\* the home page is not shown
NoHome == objectDetection = NotRendered /\ voiceController = NotRendered

HomeUntouched == UNCHANGED <<objectDetection, voiceController>>

Init == Mounted /\ call = NoCall /\ NoHome

\* ---- the AR engine reports target i ----------------------------------------
TargetFound_IN(i) ==
  /\ variant = "IN"
  /\ nav.attached
  /\ LET r == onTargetFound_IN(World, i) IN
       /\ Commit(r)
       /\ arrivals' = Counted(arrivals + CountArrivals(r.out))
  /\ event' = (LET n == indexToNode_IN[i] IN
               IF acceptStable_IN(World, n).ok
               THEN [Event("confirm", n) EXCEPT !.from = nav.currentNode]
               ELSE Event("sighting", n))
  /\ UNCHANGED <<elsewhere, variant, voice, destination, stale, now, staleArrivals, reruns>>

TargetFound_NP(i) ==
  /\ variant = "NP"
  /\ nav.attached
  /\ LET r == onTargetFound_NP(World, i) IN
       /\ Commit(r)
       /\ arrivals' = Counted(arrivals + CountArrivals(r.out))
  /\ event' = (LET n == indexToNode_NP[i] IN
               IF acceptStable_NP(World, n).ok
               THEN [Event("confirm", n) EXCEPT !.from = nav.currentNode]
               ELSE Event("sighting", n))
  /\ UNCHANGED <<elsewhere, variant, voice, destination, stale, now, staleArrivals, reruns>>

\* ---- timers of the live session ---------------------------------------------
SetupFire ==
  /\ nav.setupTimeout # NoTimer
  /\ nav.setupTimeout <= now
  /\ Commit(IF variant = "IN" THEN setup_IN(World) ELSE setup_NP(World))
  /\ arrivals' = 0
  /\ staleArrivals' = 0
  /\ event' = Event("setup", NoNode)
  /\ UNCHANGED <<elsewhere, variant, voice, destination, stale, now, reruns>>

MovementPromptTick ==
  /\ nav.movementPromptInterval # NoTimer
  /\ nav.movementPromptInterval <= now
  /\ LET r == IF variant = "IN" THEN maybeGiveMovementPrompt_IN(World)
                                ELSE maybeGiveMovementPrompt_NP(World)
     IN Commit([r EXCEPT !.nav.movementPromptInterval = @ + movementPromptPeriodMs])
  /\ event' = Event("tick", NoNode)
  /\ UNCHANGED <<elsewhere, variant, voice, destination, stale, now, arrivals, staleArrivals, reruns>>

DelayedAnnounce ==
  /\ nav.pending # <<>>
  /\ Head(nav.pending) <= now
  /\ LET w == [World EXCEPT !.nav.pending = Tail(@),
                            !.nav.doomed = IF @ > 0 THEN @ - 1 ELSE 0]
         r == IF variant = "IN" THEN announceNextInstruction_IN(w)
                                ELSE announceNextInstruction_NP(w)
     IN /\ Commit(r)
        /\ arrivals' = Counted(arrivals + CountArrivals(r.out))
  /\ event' = Event("delayed", NoNode)
  /\ UNCHANGED <<elsewhere, variant, voice, destination, stale, now, staleArrivals, reruns>>

\* ---- a 350 ms timeout of a torn-down session: cleanup does not clear it ------
StaleAnnounce(k) ==
  /\ k \in 1..Len(stale)
  /\ Head(stale[k].pending) <= now
  /\ LET w == [World EXCEPT !.nav = [stale[k] EXCEPT !.pending = Tail(@),
                                                     !.doomed = IF @ > 0 THEN @ - 1 ELSE 0]]
         r == IF variant = "IN" THEN announceNextInstruction_IN(w)
                                ELSE announceNextInstruction_NP(w)
     IN /\ stale' = IF r.nav.pending = <<>>
                    THEN SubSeq(stale, 1, k - 1) \o SubSeq(stale, k + 1, Len(stale))
                    ELSE [stale EXCEPT ![k] = r.nav]
        /\ synth' = r.synth
        /\ out' = r.out
        /\ staleArrivals' = Counted(staleArrivals + CountArrivals(r.out))
  /\ event' = Event("stale", NoNode)
  /\ UNCHANGED <<elsewhere, variant, voice, destination, nav, now, arrivals, reruns>>

\* ---- buttons ------------------------------------------------------------------
Reset ==
  /\ nav.attached
  /\ Commit(IF variant = "IN" THEN resetNav_IN(World) ELSE resetNav_NP(World))
  /\ arrivals' = 0
  /\ staleArrivals' = 0
  /\ event' = Event("reset", NoNode)
  /\ UNCHANGED <<elsewhere, variant, voice, destination, stale, now, reruns>>

Repeat ==
  /\ nav.attached
  /\ Commit(IF variant = "IN" THEN handleRepeat_IN(World) ELSE handleRepeat_NP(World))
  /\ event' = Event("repeat", NoNode)
  /\ UNCHANGED <<elsewhere, variant, voice, destination, stale, now, arrivals, staleArrivals, reruns>>

\* ---- the navigation effect re-runs because `destination` changed ---------------
\* w is the world after the event's own handlers; cleanups run, then a new session
Rerun(w, d) ==
  LET old == IF variant = "IN" THEN cleanup_IN(w.nav) ELSE cleanup_NP(w.nav)
      w1 == IF voice THEN Emit([w EXCEPT !.synth = <<>>], Cancel) ELSE w
  IN /\ reruns < MaxReruns
     /\ reruns' = reruns + 1
     /\ stale' = IF old.pending # <<>> THEN Append(stale, old) ELSE stale
     /\ Len(stale') <= MaxStale
     /\ nav' = IF variant = "IN" THEN NewSession_IN(d, now) ELSE NewSession_NP(d, now)
     /\ destination' = d
     /\ synth' = w1.synth
     /\ out' = w1.out
     /\ arrivals' = 0
     /\ staleArrivals' = 0

\* the <select>: the native 'change' listener (once attached), then React's onChange
SelectDestination(d) ==
  /\ d \in (IF variant = "IN" THEN DestOptions_IN ELSE DestOptions_NP)
  /\ d # destination
  /\ LET w == IF ~nav.attached THEN World
              ELSE IF variant = "IN" THEN setDestinationHandler_IN(World, d)
                                     ELSE setDestinationHandler_NP(World, d)
     IN Rerun(w, d)
  /\ event' = Event("select", d)
  /\ UNCHANGED <<elsewhere, variant, voice, now>>

\* window.speechSynthesis.cancel(), then speak(utterance): lastSpoken is not touched
speakViaTTS_IN(w, text) ==
  Emit([w EXCEPT !.synth = <<text>>], Utter(text))

\* onresult without the `matchedDestination !== destination` test; C29 does not hold
\* of it
VoiceCommand_IN_always(d) ==
  /\ variant = "IN"
  /\ voice
  /\ d \in DestOptions_IN
  /\ event' = Event("voice", d)
  /\ Rerun(speakViaTTS_IN(
             Emit(World, SetStatus("Destination set to " \o nodes_IN[d].label
                                     \o " via voice command.")),
             "Destination set to " \o nodes_IN[d].label \o "."), d)
  /\ UNCHANGED <<elsewhere, variant, voice, now>>

\* recognition.onresult once the keyword table has matched destination d, followed by
\* the re-run of the effects that React schedules for the state change
VoiceCommand_IN(d) ==
  /\ variant = "IN"
  /\ voice
  /\ d \in DestOptions_IN
  /\ event' = Event("voice", d)
  /\ IF d # destination
     THEN Rerun(speakViaTTS_IN(
                  Emit(World, SetStatus("Destination set to " \o nodes_IN[d].label
                                          \o " via voice command.")),
                  "Destination set to " \o nodes_IN[d].label \o "."), d)
     ELSE /\ out' = <<>>
          /\ UNCHANGED <<destination, nav, stale, synth, arrivals, staleArrivals, reruns>>
  /\ UNCHANGED <<elsewhere, variant, voice, now>>

\* ---- the browser's speech queue and the clock -----------------------------------
UtteranceEnd ==
  /\ synth # <<>>
  /\ synth' = Tail(synth)
  /\ out' = <<>>
  /\ event' = Event("uttered", NoNode)
  /\ UNCHANGED <<elsewhere, variant, voice, destination, nav, stale, now, arrivals, staleArrivals, reruns>>

AdvanceTargets ==
  Deadlines \cup (IF nav.candidate # NoNode THEN {nav.candidateSince + stableMs} ELSE {})

\* time passes, never beyond a timer that is due
Advance ==
  /\ \E t \in AdvanceTargets :
       /\ now < t
       /\ t <= MaxTime
       /\ \A d \in Deadlines : t <= d
       /\ now' = t
  /\ out' = <<>>
  /\ event' = Event("advance", NoNode)
  /\ UNCHANGED <<elsewhere, variant, voice, destination, nav, stale, synth, arrivals, staleArrivals, reruns>>

Next ==
  \/ \E i \in TargetIndices_IN : TargetFound_IN(i)
  \/ \E i \in TargetIndices_NP : TargetFound_NP(i)
  \/ SetupFire
  \/ MovementPromptTick
  \/ DelayedAnnounce
  \/ \E k \in 1..MaxStale : StaleAnnounce(k)
  \/ Reset
  \/ Repeat
  \/ \E d \in DestOptions_IN \cup DestOptions_NP : SelectDestination(d)
  \/ \E d \in DestOptions_IN : VoiceCommand_IN(d)
  \/ UtteranceEnd
  \/ Advance

Spec == Init /\ [][Next]_vars

\* ---- the same page left alone for seconds: one effect run, the destination is not
\* ---- changed, and the user acts in two short periods with a long pause between them
Acting == now <= MaxSightTime \/ (LateSightFrom <= now /\ now <= LateSightUntil)

SightTarget_IN(i) == Acting /\ TargetFound_IN(i)

SightTarget_NP(i) == Acting /\ TargetFound_NP(i)

ActReset == Acting /\ Reset

ActRepeat == Acting /\ Repeat

AdvanceIdle ==
  /\ \E t \in AdvanceTargets :
       /\ now < t
       /\ t <= MaxIdleTime
       /\ \A d \in Deadlines : t <= d
       /\ now' = t
  /\ out' = <<>>
  /\ event' = Event("advance", NoNode)
  /\ UNCHANGED <<elsewhere, variant, voice, destination, nav, stale, synth, arrivals, staleArrivals, reruns>>

NextIdle ==
  \/ \E i \in TargetIndices_IN : SightTarget_IN(i)
  \/ \E i \in TargetIndices_NP : SightTarget_NP(i)
  \/ SetupFire
  \/ MovementPromptTick
  \/ DelayedAnnounce
  \/ ActReset
  \/ ActRepeat
  \/ UtteranceEnd
  \/ AdvanceIdle

SpecIdle == Init /\ [][NextIdle]_vars

\* ---- bfsPath called on its own, on every small landmark graph ---------------------
\* the variables of the page do not take part
PageUntouched ==
  UNCHANGED <<variant, voice, destination, nav, stale, synth, now, out, arrivals,
              staleArrivals, reruns, event>>

BfsNodes == {"two", "washroom", "caution", "door"}

\* the edge lists a node can have: up to MaxDegree edges to distinct nodes, in order
EdgeLists ==
  UNION {{es \in [1..n -> [to : BfsNodes, say : {"Walk straight."}]] :
            \A i, j \in 1..n : i # j => es[i].to # es[j].to} : n \in 1..MaxDegree}

\* edge tables: a node without outgoing edges has no entry
Graphs == UNION {[D -> EdgeLists] : D \in SUBSET BfsNodes}

InitBfs ==
  /\ Mounted
  /\ NoHome
  /\ variant = "NP"
  /\ call \in [fn : {"bfsPath"}, edges : Graphs, start : BfsNodes, goal : BfsNodes,
                done : {FALSE}, path : {NoPath}]

CallBfs ==
  /\ call.fn = "bfsPath"
  /\ ~call.done
  /\ call' = [call EXCEPT !.done = TRUE,
                           !.path = bfsPath(call.edges, call.start, call.goal)]
  /\ PageUntouched
  /\ HomeUntouched

NextBfs == CallBfs

SpecBfs == InitBfs /\ [][NextBfs]_vars

\* ---- voice keyword matching called on its own --------------------------------------
\* text is a sequence of characters
UpperCase == <<"A", "B", "E", "L", "O", "R", "T", "V">>
LowerCase == <<"a", "b", "e", "l", "o", "r", "t", "v">>

\* String.prototype.toLowerCase (UpperCase lists the capitals that Vocabulary uses)
toLowerCase(t) ==
  [i \in 1..Len(t) |->
     IF \E k \in 1..Len(UpperCase) : UpperCase[k] = t[i]
     THEN LowerCase[CHOOSE k \in 1..Len(UpperCase) : UpperCase[k] = t[i]]
     ELSE t[i]]

\* String.prototype.trim
RECURSIVE trim(_)
trim(t) ==
  IF t = <<>> THEN t
  ELSE IF Head(t) = " " THEN trim(Tail(t))
  ELSE IF t[Len(t)] = " " THEN trim(SubSeq(t, 1, Len(t) - 1))
  ELSE t

\* String.prototype.includes
includes(t, k) ==
  \E i \in 1..(Len(t) - Len(k) + 1) : SubSeq(t, i, i + Len(k) - 1) = k

\* Object.entries(keywordMap), in insertion order
keywordMap ==
  << [keyword |-> <<"w", "a", "s", "h", "r", "o", "o", "m">>,
      dest |-> "washroom"],
     [keyword |-> <<"w", "a", "s", "h", " ", "r", "o", "o", "m">>,
      dest |-> "washroom"],
     [keyword |-> <<"b", "a", "t", "h", "r", "o", "o", "m">>,
      dest |-> "washroom"],
     [keyword |-> <<"b", "a", "t", "h", " ", "r", "o", "o", "m">>,
      dest |-> "washroom"],
     [keyword |-> <<"r", "e", "s", "t", "r", "o", "o", "m">>,
      dest |-> "washroom"],
     [keyword |-> <<"e", "l", "e", "v", "a", "t", "o", "r">>,
      dest |-> "elevator"],
     [keyword |-> <<"m", "a", "i", "n", " ", "h", "a", "l", "l">>,
      dest |-> "mainhall"],
     [keyword |-> <<"m", "a", "i", "n", "h", "a", "l", "l">>,
      dest |-> "mainhall"],
     [keyword |-> <<"e", "x", "i", "t", " ", "d", "o", "o", "r">>,
      dest |-> "exitdoor"],
     [keyword |-> <<"e", "x", "i", "t", "d", "o", "o", "r">>,
      dest |-> "exitdoor"],
     [keyword |-> <<"e", "x", "i", "t">>,
      dest |-> "exitdoor"] >>

\* the loop over the entries that overwrites an earlier match; C28 does not hold of it
RECURSIVE matchFrom_lastWins(_, _)
matchFrom_lastWins(transcript, i) ==
  IF i > Len(keywordMap) THEN NoNode
  ELSE LET later == matchFrom_lastWins(transcript, i + 1)
       IN IF later # NoNode THEN later
          ELSE IF includes(transcript, keywordMap[i].keyword) THEN keywordMap[i].dest
          ELSE NoNode

\* `for (const [keyword, dest] of Object.entries(keywordMap))` from entry i on
RECURSIVE matchFrom(_, _)
matchFrom(transcript, i) ==
  IF i > Len(keywordMap) THEN NoNode
  ELSE IF includes(transcript, keywordMap[i].keyword) THEN keywordMap[i].dest
  ELSE matchFrom(transcript, i + 1)

\* recognition.onresult up to matchedDestination (IntegratedNavigation) and
\* matchedId (VoiceController, which also trims)
matchedDestination(rawTranscript) == matchFrom(toLowerCase(rawTranscript), 1)

matchedId(rawTranscript) == matchFrom(trim(toLowerCase(rawTranscript)), 1)

\* what the recogniser may hear: up to MaxWords of these, separated by spaces
Vocabulary ==
  { <<"p", "l", "e", "a", "s", "e", " ", "t", "a", "k", "e", " ", "m", "e", " ", "t", "o", " ", "t", "h", "e">>,
     <<"b", "a", "t", "h", "r", "o", "o", "m">>,
     <<"B", "a", "t", "h", "r", "o", "o", "m">>,
     <<"w", "a", "s", "h">>,
     <<"r", "o", "o", "m">>,
     <<"w", "a", "s", "h", "r", "o", "o", "m">>,
     <<"r", "e", "s", "t", "r", "o", "o", "m">>,
     <<"e", "l", "e", "v", "a", "t", "o", "r">>,
     <<"E", "L", "E", "V", "A", "T", "O", "R">>,
     <<"m", "a", "i", "n">>,
     <<"h", "a", "l", "l">>,
     <<"m", "a", "i", "n", "h", "a", "l", "l">>,
     <<"e", "x", "i", "t">>,
     <<"d", "o", "o", "r">>,
     <<"e", "x", "i", "t", "s">>,
     <<"g", "o", " ", "t", "o">>,
     <<"l", "i", "f", "t">>,
     <<>> }

RECURSIVE Utterances(_)
Utterances(n) ==
  IF n = 1 THEN Vocabulary
  ELSE LET shorter == Utterances(n - 1)
       IN shorter \cup {u \o <<" ">> \o v : u \in shorter, v \in Vocabulary}

InitVoice ==
  /\ Mounted
  /\ NoHome
  /\ variant = "IN"
  /\ voice
  /\ call \in [fn : {"onresult"}, component : {"IntegratedNavigation", "VoiceController"},
                rawTranscript : Utterances(MaxWords), done : {FALSE}, matched : {NoNode}]

MatchKeyword ==
  /\ call.fn = "onresult"
  /\ ~call.done
  /\ call' = [call EXCEPT !.done = TRUE,
                           !.matched = IF call.component = "IntegratedNavigation"
                                       THEN matchedDestination(call.rawTranscript)
                                       ELSE matchedId(call.rawTranscript)]
  /\ PageUntouched
  /\ HomeUntouched

NextVoice == MatchKeyword

SpecVoice == InitVoice /\ [][NextVoice]_vars

\* ---- the TTS proxy route called on its own -------------------------------------------
\* a JavaScript value: its type and, for strings and numbers, its text
JsValue(type, value) == [type |-> type, value |-> value]

Undefined == JsValue("undefined", "")

\* `!v`
Falsy(v) ==
  \/ v.type \in {"undefined", "null"}
  \/ v.type = "string" /\ v.value = ""
  \/ v.type = "number" /\ v.value = "0"

\* NextResponse.json(body, { status }) and new NextResponse(audioBuffer, { headers });
\* effects lists, in order, the awaited calls the handler made
Response(status, contentType, error, effects) ==
  [threw |-> FALSE, status |-> status, contentType |-> contentType, error |-> error,
   effects |-> effects]

\* the handler without its try/catch; C30 does not hold of it
catch_POST_rethrow(effects) ==
  [threw |-> TRUE, status |-> 0, contentType |-> "", error |-> "", effects |-> effects]

\* the catch block
catch_POST(effects) ==
  Response(500, "application/json", "Internal Server Error", effects)

\* the upstream answer counts as ok for a 2xx status
Ok(upstream) == upstream.status >= 200 /\ upstream.status <= 299

POST(req) ==
  IF Falsy(req.apiKey)
  THEN Response(500, "application/json",
                "Server configuration error: Missing API Key in .env.local", <<>>)
  ELSE IF req.body.kind \in {"invalid", "null"}
  THEN catch_POST(<<"req.json">>)
  ELSE LET text == IF req.body.kind = "object" THEN req.body.text ELSE Undefined
       IN IF Falsy(text)
          THEN Response(400, "application/json", "No text provided", <<"req.json">>)
          ELSE IF req.upstream.kind = "rejects"
          THEN catch_POST(<<"req.json", "fetch">>)
          ELSE IF ~Ok(req.upstream)
          THEN IF req.readFails
               THEN catch_POST(<<"req.json", "fetch", "response.text">>)
               ELSE Response(req.upstream.status, "application/json", req.upstream.text,
                             <<"req.json", "fetch", "response.text">>)
          ELSE IF req.readFails
               THEN catch_POST(<<"req.json", "fetch", "response.arrayBuffer">>)
               ELSE Response(200, "audio/mpeg", "",
                             <<"req.json", "fetch", "response.arrayBuffer">>)

\* process.env.NEXT_PUBLIC_ELEVENLABS_API_KEY
ApiKeys == {Undefined, JsValue("string", ""), JsValue("string", "xi-key")}

\* what req.json() yields: a rejection (invalid JSON), null, a primitive, or an object
\* whose `text` is absent or one of a few values
Bodies ==
  {[kind |-> k, text |-> Undefined] : k \in {"invalid", "null", "primitive"}}
    \cup {[kind |-> "object", text |-> t] :
            t \in {Undefined, JsValue("null", ""), JsValue("string", ""),
                   JsValue("string", "Walk straight."), JsValue("number", "0"),
                   JsValue("number", "5")}}

\* what fetch yields: a rejection or a response
Upstreams ==
  {[kind |-> "rejects", status |-> 0, text |-> ""]}
    \cup {[kind |-> "response", status |-> st,
           text |-> IF st = 200 THEN "" ELSE "upstream error"] :
            st \in {200, 401, 429, 500}}

InitTts ==
  /\ Mounted
  /\ NoHome
  /\ variant = "IN"
  /\ voice
  /\ call \in [fn : {"POST"},
               req : [apiKey : ApiKeys, body : Bodies, upstream : Upstreams,
                      readFails : BOOLEAN],
               done : {FALSE},
               res : {Response(0, "", "", <<>>)}]

CallPost ==
  /\ call.fn = "POST"
  /\ ~call.done
  /\ call' = [call EXCEPT !.done = TRUE, !.res = POST(call.req)]
  /\ PageUntouched
  /\ HomeUntouched

NextTts == CallPost

SpecTts == InitTts /\ [][NextTts]_vars

\* ============================ ObjectDetection ================================
\* The component of app/components/ObjectDetection.tsx as the home page renders it
\* (no externalVideoElement, showUI).  Its record holds the React state (model,
\* useCamera, isSpeaking, error, reached: the checkpoints with reached = true,
\* currentCheckpoint), the refs (lastAnnouncement, lastAnnouncementTime,
\* lastProximityAlert), the clock, the running detect loops, each identified by the
\* value of isSpeaking that its closure captured when the effect started it, and the
\* requests to /api/tts that are under way (fetching) or playing.  `step` and
\* `requested` describe the last step: the handler that ran and the texts it sent to
\* /api/tts.
\* `warnedAt` is history: the clock at the last two proximity warnings sent.
\* The canvas drawing and the `detections` list do not take part.

\* ---- bounds ----
FirstClock == 10000
ClockStep == 1000
MaxDetectTime == 13000
MaxObjects == 1
MaxInFlight == 3

\* ---- program constants ----
proximityAlertMs == 3000
announcementMs == 5000
minScore == 60

checkpoints_OD ==
  << [id |-> "elevator", name |-> "Elevator", targetObjects |-> <<"person">>],
     [id |-> "washroom", name |-> "Washroom", targetObjects |-> <<"toilet", "sink">>],
     [id |-> "mainhall", name |-> "Main Hall",
      targetObjects |-> <<"chair", "bench", "person">>],
     [id |-> "exitdoor", name |-> "Exit Door", targetObjects |-> <<"person">>] >>

\* classMappings[normalizedTarget] || [normalizedTarget]
classMappings(target) ==
  CASE target = "tv" -> {"tv", "television"}
    [] target = "remote" -> {"remote", "remote control"}
    [] target = "cell phone" -> {"cell phone", "mobile phone", "phone"}
    [] target = "mouse" -> {"mouse", "computer mouse"}
    [] OTHER -> {target}

\* a prediction is [class, score, area]: the score in percent, the area of the box in
\* percent of the canvas; class names are lower case as COCO-SSD gives them
estimateDistance(prediction) ==
  LET isLarge == prediction.class \in {"person", "car", "bicycle", "tv", "couch"}
      isSmall == prediction.class \in {"bottle", "cup", "cell phone", "mouse", "remote"}
      thresholds == IF isLarge THEN [vClose |-> 40, close |-> 20, med |-> 8]
                    ELSE IF isSmall THEN [vClose |-> 8, close |-> 3, med |-> 1]
                    ELSE [vClose |-> 25, close |-> 10, med |-> 3]
  IN IF prediction.area > thresholds.vClose THEN "Very Close"
     ELSE IF prediction.area > thresholds.close THEN "Close"
     ELSE IF prediction.area > thresholds.med THEN "Medium"
     ELSE IF prediction.area >= 1 THEN "Far" ELSE "Very Far"

\* array.join(', ')
RECURSIVE join(_)
join(names) ==
  IF names = <<>> THEN ""
  ELSE IF Len(names) = 1 THEN names[1]
  ELSE names[1] \o ", " \o join(Tail(names))

\* Date.now()
Date_now(c) == c.clock

\* speakText as a closure that captured isSpeaking sees it
speakText_OD(c, isSpeaking, text) ==
  IF isSpeaking THEN c
  ELSE [c EXCEPT !.isSpeaking = TRUE,
                 !.fetching = @ + 1,
                 !.requested = Append(@, text)]

\* the checkpoints that the updater of checkForCheckpoints marks as reached, in order
hasRequiredObjects(checkpoint, predictions) ==
  \E k \in 1..Len(checkpoint.targetObjects) : \E i \in 1..Len(predictions) :
    predictions[i].class \in
      {checkpoint.targetObjects[k]} \cup classMappings(checkpoint.targetObjects[k])

newlyReached(c, predictions) ==
  SelectSeq(checkpoints_OD,
            LAMBDA cp : cp.id \notin c.reached /\ hasRequiredObjects(cp, predictions))

\* the tasks queued by Promise.resolve().then(...) for the checkpoints in hits
RECURSIVE checkpointTasks(_, _, _)
checkpointTasks(c, isSpeaking, hits) ==
  IF hits = <<>> THEN c
  ELSE checkpointTasks(
         speakText_OD([c EXCEPT !.currentCheckpoint = hits[1].name], isSpeaking,
                      "Checkpoint reached: " \o hits[1].name),
         isSpeaking, Tail(hits))

\* checkProximityAlerts without the 3-second test; C32 does not hold of it
checkProximityAlerts_noThrottle(c, isSpeaking, predictions) ==
  LET veryCloseObjects ==
        SelectSeq(predictions, LAMBDA p : estimateDistance(p) = "Very Close")
      objectNames == join([i \in 1..Len(veryCloseObjects) |-> veryCloseObjects[i].class])
  IN IF Len(veryCloseObjects) > 0
     THEN speakText_OD([c EXCEPT !.lastProximityAlert = Date_now(c)], isSpeaking,
                       "Warning! Objects very close: " \o objectNames)
     ELSE c

checkProximityAlerts(c, isSpeaking, predictions) ==
  IF Date_now(c) - c.lastProximityAlert < proximityAlertMs THEN c
  ELSE LET veryCloseObjects ==
             SelectSeq(predictions, LAMBDA p : estimateDistance(p) = "Very Close")
           objectNames == join([i \in 1..Len(veryCloseObjects) |-> veryCloseObjects[i].class])
       IN IF Len(veryCloseObjects) > 0
          THEN speakText_OD([c EXCEPT !.lastProximityAlert = Date_now(c)], isSpeaking,
                            "Warning! Objects very close: " \o objectNames)
          ELSE c

\* objectsByDistance[dist]: the classes at that distance, each once, in order
RECURSIVE classesAt(_, _, _)
classesAt(predictions, dist, acc) ==
  IF predictions = <<>> THEN acc
  ELSE LET pred == Head(predictions)
           seen == \E i \in 1..Len(acc) : acc[i] = pred.class
       IN classesAt(Tail(predictions), dist,
                    IF estimateDistance(pred) = dist /\ ~seen
                    THEN Append(acc, pred.class) ELSE acc)

RECURSIVE announcementFrom(_, _)
announcementFrom(predictions, distances) ==
  IF distances = <<>> THEN ""
  ELSE LET names == classesAt(predictions, Head(distances), <<>>)
       IN (IF Len(names) > 0 THEN Head(distances) \o ": " \o join(names) \o ". " ELSE "")
            \o announcementFrom(predictions, Tail(distances))

announceDetections(c, isSpeaking, predictions) ==
  IF Len(predictions) = 0 \/ isSpeaking THEN c
  ELSE LET announcement ==
             announcementFrom(predictions,
                              <<"Very Close", "Close", "Medium", "Far", "Very Far">>)
       IN IF announcement = c.lastAnnouncement THEN c
          ELSE speakText_OD([c EXCEPT !.lastAnnouncement = announcement], isSpeaking,
                            announcement)

\* one pass of detect() in a loop whose closure captured isSpeaking
detect(c, isSpeaking, predictions) ==
  LET filtered == SelectSeq(predictions, LAMBDA p : p.score > minScore)
      hits == newlyReached(c, filtered)
      c1 == [c EXCEPT !.reached = @ \cup {hits[i].id : i \in 1..Len(hits)}]
      c2 == checkProximityAlerts(c1, isSpeaking, filtered)
      c3 == IF Date_now(c2) - c2.lastAnnouncementTime > announcementMs
               /\ ~isSpeaking /\ Len(filtered) > 0
            THEN announceDetections([c2 EXCEPT !.lastAnnouncementTime = Date_now(c2)],
                                    isSpeaking, filtered)
            ELSE c2
  IN checkpointTasks(c3, isSpeaking, hits)

\* the effect on [useCamera, model]: detectObjects() starts a loop, whose closure holds
\* the isSpeaking of the render that ran the effect
detectionEffect(c) ==
  IF c.useCamera /\ c.model = "loaded"
  THEN [c EXCEPT !.loops = @ \cup {c.isSpeaking}] ELSE c

\* the component right after its first render
Rendered_OD ==
  [ rendered |-> TRUE,
    model |-> "loading",
    useCamera |-> FALSE,
    isSpeaking |-> FALSE,
    error |-> "",
    reached |-> {},
    currentCheckpoint |-> "",
    lastAnnouncement |-> "",
    lastAnnouncementTime |-> 0,
    lastProximityAlert |-> 0,
    loops |-> {},
    fetching |-> 0,
    playing |-> 0,
    clock |-> FirstClock,
    step |-> "render",
    requested |-> <<>>,
    warnedAt |-> <<>> ]

\* what a frame may show
Predictions ==
  [class : {"toilet"}, score : {90}, area : {5, 50}]
    \cup {[class |-> "person", score |-> 50, area |-> 50]}

Frames == UNION {[1..n -> Predictions] : n \in 0..MaxObjects}

\* text is a proximity warning
IsWarning(text) ==
  \E f \in Frames :
    text = "Warning! Objects very close: " \o join([i \in 1..Len(f) |-> f[i].class])

\* the handler's result c becomes the state
CommitDetection(name, c) ==
  /\ c.fetching + c.playing <= MaxInFlight
  /\ objectDetection' =
       [c EXCEPT !.step = name,
                 !.warnedAt =
                   IF \E i \in 1..Len(c.requested) : IsWarning(c.requested[i])
                   THEN (IF @ = <<>> THEN <<c.clock>> ELSE <<@[Len(@)], c.clock>>)
                   ELSE @]
  /\ PageUntouched
  /\ UNCHANGED <<call, voiceController>>

\* objectDetection at the start of a handler
Before == [objectDetection EXCEPT !.requested = <<>>]

InitDetection ==
  /\ Mounted
  /\ variant = "IN"
  /\ voice
  /\ call = NoCall
  /\ voiceController = NotRendered
  /\ objectDetection = Rendered_OD

\* loadModel settles
LoadModel(ok) ==
  /\ objectDetection.model = "loading"
  /\ CommitDetection("loadModel",
       IF ok THEN detectionEffect([Before EXCEPT !.model = "loaded"])
       ELSE [Before EXCEPT !.model = "failed",
                           !.error = "Failed to load model: " \o "load failed"])

\* the Start Camera button
startCamera(granted) ==
  /\ ~objectDetection.useCamera
  /\ CommitDetection("startCamera",
       IF granted THEN detectionEffect([Before EXCEPT !.useCamera = TRUE])
       ELSE [Before EXCEPT !.error = "Camera access denied"])

\* the Stop Camera button: the loops that run keep the useCamera they captured
stopCamera ==
  /\ objectDetection.useCamera
  /\ CommitDetection("stopCamera", [Before EXCEPT !.useCamera = FALSE])

\* the Test Audio button, disabled while isSpeaking
testAudio ==
  /\ ~objectDetection.isSpeaking
  /\ CommitDetection("testAudio",
                     speakText_OD(Before, objectDetection.isSpeaking,
                                  "Audio system is active."))

resetCheckpoints ==
  /\ objectDetection.reached # {}
  /\ CommitDetection("resetCheckpoints",
                     [Before EXCEPT !.reached = {}, !.currentCheckpoint = ""])

\* model.detect resolves in one of the loops
DetectFrame(isSpeaking, predictions) ==
  /\ isSpeaking \in objectDetection.loops
  /\ CommitDetection("detect", detect(Before, isSpeaking, predictions))

\* model.detect rejects in one of the loops: the catch logs, the loop is not rescheduled
DetectThrows(isSpeaking) ==
  /\ isSpeaking \in objectDetection.loops
  /\ CommitDetection("detectError", [Before EXCEPT !.loops = @ \ {isSpeaking}])

\* a request to /api/tts settles: the audio starts, or speakText's catch runs because
\* fetch rejected, the response was not ok, or audio.play() rejected
TtsSettles(outcome) ==
  /\ objectDetection.fetching > 0
  /\ CommitDetection(IF outcome = "plays" THEN "ttsPlays" ELSE "ttsError",
       IF outcome = "plays"
       THEN [Before EXCEPT !.fetching = @ - 1, !.playing = @ + 1]
       ELSE [Before EXCEPT !.fetching = @ - 1, !.isSpeaking = FALSE])

\* audio.onended
AudioEnded ==
  /\ objectDetection.playing > 0
  /\ CommitDetection("audioEnded",
                     [Before EXCEPT !.playing = @ - 1, !.isSpeaking = FALSE])

ClockTick ==
  /\ objectDetection.clock + ClockStep <= MaxDetectTime
  /\ CommitDetection("tick", [Before EXCEPT !.clock = @ + ClockStep])

NextDetection ==
  \/ \E ok \in BOOLEAN : LoadModel(ok)
  \/ \E granted \in BOOLEAN : startCamera(granted)
  \/ stopCamera
  \/ testAudio
  \/ resetCheckpoints
  \/ \E b \in BOOLEAN : \E f \in Frames : DetectFrame(b, f)
  \/ \E b \in BOOLEAN : DetectThrows(b)
  \/ \E o \in {"plays", "rejects", "notOk", "playFails"} : TtsSettles(o)
  \/ AudioEnded
  \/ ClockTick

SpecDetection == InitDetection /\ [][NextDetection]_vars

\* ============================ VoiceController ================================
\* The component of app/components/VoiceContoller.tsx.  Its record holds the React
\* state (isListening, status, matchedCheckpoint), the closures made by the calls of
\* startListening (one shouldStop each), every SpeechRecognition object created so far
\* with the closure it belongs to and its state (starting: start() called; listening:
\* onstart delivered; ending: stopped or failed, onend still to come; ended; failed:
\* start() threw), recognitionRef as an index into them, the restart timers, the text
\* last passed to speechSynthesis, and the clock.  `step` names the last handler and
\* `stopped` is history: stopListening has run and startListening has not run since.

\* ---- bounds ----
MaxStartClicks == 1
MaxSessions == 4
MaxListenTime == 2200

\* ---- program constants ----
restartAfterEndMs == 100
restartAfterErrorMs == 1000

checkpoints_VC ==
  << [id |-> "washroom", name |-> "Washroom"],
     [id |-> "elevator", name |-> "Elevator"],
     [id |-> "mainhall", name |-> "Main Hall"],
     [id |-> "exitdoor", name |-> "Exit Door"] >>

Rendered_VC(supported) ==
  [ rendered |-> TRUE,
    SpeechRecognition |-> supported,
    isListening |-> FALSE,
    status |-> "Click to start listening for checkpoints",
    matchedCheckpoint |-> NoNode,
    closures |-> <<>>,
    sessions |-> <<>>,
    recognitionRef |-> 0,
    timers |-> <<>>,
    spoken |-> "",
    clock |-> 0,
    step |-> "render",
    stopped |-> FALSE ]

\* speakText: speechSynthesis.cancel(), then speak
speakText_VC(v, text) == [v EXCEPT !.spoken = text]

\* recognition.stop() on the object that recognitionRef holds
stopRef(v) ==
  IF v.recognitionRef # 0 /\ v.sessions[v.recognitionRef].state \in {"starting", "listening"}
  THEN [v EXCEPT !.sessions[v.recognitionRef].state = "ending"]
  ELSE v

\* startRecognition of closure k; recognition.start() may throw
startRecognition(v, k, throws) ==
  IF v.closures[k].shouldStop THEN v
  ELSE LET v1 == [v EXCEPT !.sessions = Append(@, [closure |-> k,
                                                   state |-> IF throws THEN "failed"
                                                             ELSE "starting"]),
                           !.recognitionRef = Len(v.sessions) + 1]
       IN IF throws
          THEN [v1 EXCEPT !.isListening = FALSE,
                          !.status = "Error starting speech recognition"]
          ELSE v1

\* setTimeout(() => { if (!shouldStop) startRecognition() }, delay)
restartLater(v, k, delay) ==
  [v EXCEPT !.timers = Append(@, [closure |-> k, due |-> v.clock + delay])]

onend_VC(v, s) ==
  LET k == v.sessions[s].closure
      v1 == [v EXCEPT !.sessions[s].state = "ended", !.isListening = FALSE]
  IN IF ~v1.closures[k].shouldStop THEN restartLater(v1, k, restartAfterEndMs) ELSE v1

onerror_VC(v, s, error) ==
  LET k == v.sessions[s].closure
      v1 == [v EXCEPT !.sessions[s].state = "ending"]
  IN IF error = "not-allowed"
     THEN [v1 EXCEPT !.status = "Microphone permission denied. Please enable microphone access.",
                     !.isListening = FALSE,
                     !.closures[k].shouldStop = TRUE]
     ELSE IF error # "aborted" /\ error # "no-speech"
          THEN LET v2 == [v1 EXCEPT !.isListening = FALSE]
               IN IF ~v2.closures[k].shouldStop
                  THEN restartLater(v2, k, restartAfterErrorMs) ELSE v2
          ELSE v1

onresult_VC(v, rawTranscript) ==
  LET id == matchedId(rawTranscript)
      found == {i \in 1..Len(checkpoints_VC) : checkpoints_VC[i].id = id}
  IN IF id # NoNode
     THEN IF found # {}
          THEN LET checkpoint == checkpoints_VC[CHOOSE i \in found : TRUE]
               IN speakText_VC([v EXCEPT !.matchedCheckpoint = checkpoint.name,
                                         !.status = "Checkpoint detected: " \o checkpoint.name],
                               "Checkpoint detected: " \o checkpoint.name)
          ELSE v
     ELSE [v EXCEPT !.status = <<"Heard: ", trim(toLowerCase(rawTranscript)),
                                 " - No checkpoint matched">>]

\* what the recogniser may report
Transcripts_VC == { <<" ", "E", "x", "i", "t", " ">>, <<"l", "i", "f", "t">> }

RecognitionErrors == {"not-allowed", "aborted", "no-speech", "network"}

CommitVoice(name, v) ==
  /\ Len(v.sessions) <= MaxSessions
  /\ voiceController' = [v EXCEPT !.step = name]
  /\ PageUntouched
  /\ UNCHANGED <<call, objectDetection>>

InitListening ==
  /\ Mounted
  /\ variant = "IN"
  /\ voice
  /\ call = NoCall
  /\ objectDetection = NotRendered
  /\ \E supported \in BOOLEAN : voiceController = Rendered_VC(supported)

\* the button while it reads Start Listening
startListening(throws) ==
  /\ ~voiceController.isListening
  /\ Len(voiceController.closures) < MaxStartClicks
  /\ CommitVoice("startListening",
       IF ~voiceController.SpeechRecognition
       THEN [voiceController EXCEPT !.status = "Speech Recognition not supported"]
       ELSE startRecognition(
              [voiceController EXCEPT !.closures = Append(@, [shouldStop |-> FALSE]),
                                      !.stopped = FALSE],
              Len(voiceController.closures) + 1, throws))

\* the button while it reads Stop Listening
stopListening ==
  /\ voiceController.isListening
  /\ CommitVoice("stopListening",
       [stopRef(voiceController) EXCEPT !.isListening = FALSE,
                                        !.status = "Stopped listening",
                                        !.stopped = TRUE])

\* the browser delivers `start` to recognition object s
OnStart(s) ==
  /\ s \in 1..Len(voiceController.sessions)
  /\ voiceController.sessions[s].state = "starting"
  /\ CommitVoice("onstart",
       [voiceController EXCEPT !.sessions[s].state = "listening",
                               !.isListening = TRUE,
                               !.status = "Listening for checkpoint keywords..."])

\* ... `result`
OnResult(s, rawTranscript) ==
  /\ s \in 1..Len(voiceController.sessions)
  /\ voiceController.sessions[s].state = "listening"
  /\ CommitVoice("onresult", onresult_VC(voiceController, rawTranscript))

\* ... `error`, which `end` follows
OnError(s, error) ==
  /\ s \in 1..Len(voiceController.sessions)
  /\ voiceController.sessions[s].state \in {"starting", "listening"}
  /\ CommitVoice("onerror", onerror_VC(voiceController, s, error))

\* ... `end`: after stop(), after an error, or because the browser ended the session
OnEnd(s) ==
  /\ s \in 1..Len(voiceController.sessions)
  /\ voiceController.sessions[s].state \in {"listening", "ending"}
  /\ CommitVoice("onend", onend_VC(voiceController, s))

\* a restart timer fires
RestartTimer(i, throws) ==
  /\ i \in 1..Len(voiceController.timers)
  /\ voiceController.timers[i].due <= voiceController.clock
  /\ LET k == voiceController.timers[i].closure
         v == [voiceController EXCEPT
                 !.timers = SubSeq(@, 1, i - 1) \o SubSeq(@, i + 1, Len(@))]
     IN CommitVoice("restart", startRecognition(v, k, throws))

\* time passes, never beyond a timer that is due
ListenClock ==
  /\ \E i \in 1..Len(voiceController.timers) :
       LET t == voiceController.timers[i].due IN
       /\ voiceController.clock < t
       /\ t <= MaxListenTime
       /\ \A j \in 1..Len(voiceController.timers) : t <= voiceController.timers[j].due
       /\ CommitVoice("clock", [voiceController EXCEPT !.clock = t])

NextListening ==
  \/ \E throws \in BOOLEAN : startListening(throws)
  \/ stopListening
  \/ \E s \in 1..MaxSessions : OnStart(s)
  \/ \E s \in 1..MaxSessions : \E t \in Transcripts_VC : OnResult(s, t)
  \/ \E s \in 1..MaxSessions : \E e \in RecognitionErrors : OnError(s, e)
  \/ \E s \in 1..MaxSessions : OnEnd(s)
  \/ \E i \in 1..MaxSessions : \E throws \in BOOLEAN : RestartTimer(i, throws)
  \/ ListenClock

SpecListening == InitListening /\ [][NextListening]_vars

\* ================================ claims ====================================

PathAt(p, i) == p[i + 1]

Routing(n) == n.currentNode # NoNode /\ n.path # NoPath

ActiveNodes == IF variant = "IN" THEN ACTIVE_NODES_IN ELSE ACTIVE_NODES_NP

Edges == IF variant = "IN" THEN edges_IN ELSE edges_NP

\* the step just taken was onNodeConfirmed(event'.node) for an active landmark
Confirming == event'.name = "confirm" /\ event'.node \in ActiveNodes

Says(o, msg) == \E i \in 1..Len(o) : o[i] = Speech(msg, TRUE)

Speeches(o) == {i \in 1..Len(o) : o[i].kind = "speak"}

HasArrival(o) == \E i \in 1..Len(o) : IsArrival(o[i])

\* msg carries the instruction declared for the edge from -> to
IsInstruction(msg, from, to) ==
  \E k \in 1..Len(Edges[from]) :
    /\ Edges[from][k].to = to
    /\ msg = (IF variant = "IN"
              THEN "You are at " \o nodes_IN[from].label \o ". " \o Edges[from][k].say
              ELSE Edges[from][k].say)

\* the landmark the route expects next; NoNode at the final index
ExpectedNext(n) ==
  IF n.pathStep < Len(n.path) - 1 THEN PathAt(n.path, n.pathStep + 1) ELSE NoNode

Label(x) == IF variant = "IN" THEN nodes_IN[x].label ELSE nodes_NP[x].label

OneSpeech(o) == Cardinality(Speeches(o)) = 1

TheSpeech(o) == o[CHOOSE i \in Speeches(o) : TRUE].msg

\* o announces exactly the instruction of the edge from -> to
Instructs(o, from, to) == OneSpeech(o) /\ IsInstruction(TheSpeech(o), from, to)

InRange(n) == n.path # NoPath => (0 <= n.pathStep /\ n.pathStep < Len(n.path))

\* onNodeConfirmed is handling an active landmark that is the expected next node
OnRoute == Confirming /\ Routing(nav) /\ event'.node = ExpectedNext(nav)

\* ... one that is neither the current node nor the expected next node
OffRoute ==
  /\ Confirming /\ Routing(nav)
  /\ event'.node # nav.currentNode
  /\ event'.node # ExpectedNext(nav)

\* ... the current node again, before the final index
Reconfirm ==
  /\ Confirming /\ Routing(nav)
  /\ event'.node = nav.currentNode
  /\ nav.pathStep < Len(nav.path) - 1

\* ... a landmark from which the destination is reachable, no location being known
Starting ==
  /\ Confirming
  /\ nav.currentNode = NoNode
  /\ bfsPath(Edges, event'.node, nav.destinationNode) # NoPath

ResetPrompt ==
  IF variant = "IN" THEN "Pick a destination to start."
  ELSE "Pick a destination, then scan any landmark to start."

\* C1: in IntegratedNavigation, between two consecutive reset / destination-change
\* events at most one arrival announcement is produced by confirmations and timers
\* (Repeat excluded), and a confirmation handled once arrival has fired announces
\* nothing.
C1_ArrivalAtMostOnce ==
  variant = "IN" =>
    /\ arrivals + staleArrivals <= 1
    /\ (event.name = "confirm" /\ nav.arrived /\ ~HasArrival(out) => out = <<>>)

\* C2: in IntegratedNavigation, while arrived is true a confirmed landmark is ignored
\* entirely: the route state, lastConfirmedAt, segmentPrompted and lastSpoken stay as
\* they are and no tone, vibration or speech is emitted.  The lock is released only by
\* a reset or a destination change, and after a destination change no landmark is
\* handled before resetNav or setDestinationHandler has run.
C2_ArrivedIgnoresConfirmations ==
  [][ variant = "IN" =>
        /\ (nav.arrived /\ Confirming =>
              /\ nav'.destinationNode = nav.destinationNode
              /\ nav'.currentNode = nav.currentNode
              /\ nav'.lastNode = nav.lastNode
              /\ nav'.path = nav.path
              /\ nav'.pathStep = nav.pathStep
              /\ nav'.arrived = nav.arrived
              /\ nav'.lastConfirmedAt = nav.lastConfirmedAt
              /\ nav'.segmentPrompted = nav.segmentPrompted
              /\ nav'.lastSpoken = nav.lastSpoken
              /\ synth' = synth
              /\ out' = <<>>)
        /\ (nav.arrived /\ ~nav'.arrived => event'.name \in {"reset", "select", "voice"})
        /\ (event'.name \in {"select", "voice"} /\ nav' # nav =>
              ~nav'.attached /\ nav'.setupTimeout # NoTimer)
        /\ (~nav.attached /\ nav'.attached =>
              event'.name = "setup" /\ Says(out', "Pick a destination to start."))
    ]_vars

C2_ConfirmedWhileArrived ==
  /\ variant = "IN"
  /\ nav.arrived
  /\ event.name = "confirm"
  /\ event.node \in ACTIVE_NODES_IN
  /\ out = <<>>

\* C3: in NavigationPage, re-confirming the landmark that is already the current node
\* never changes pathStep and never speaks 'You have arrived.' again when that was the
\* last thing announced for the route in force.
C3_ReconfirmIdempotent ==
  [][ (variant = "NP" /\ Confirming /\ Routing(nav) /\ event'.node = nav.currentNode) =>
        /\ nav'.pathStep = nav.pathStep
        /\ ~(nav.lastSpoken = ArrivalMsg_NP /\ Says(out', ArrivalMsg_NP))
    ]_vars

\* C4: in every reachable state of either variant, whenever path is set the index
\* satisfies 0 <= pathStep < path.length; this holds of the live session and of every
\* torn-down session whose timers are still pending.
C4_PathStepInRange ==
  /\ InRange(nav)
  /\ \A k \in 1..Len(stale) : InRange(stale[k])

C4_AdvancedAlongPath ==
  /\ event.name = "confirm"
  /\ nav.path # NoPath
  /\ nav.pathStep >= 1

\* C5 as stated: in IntegratedNavigation, arrived is true exactly when the route is set,
\* pathStep = path.length - 1 and the arrival announcement has been made.
C5_ArrivedIffAtFinalIndex ==
  variant = "IN" =>
    (nav.arrived <=> /\ nav.path # NoPath
                     /\ nav.pathStep = Len(nav.path) - 1
                     /\ arrivals >= 1)

\* C5, amended: in IntegratedNavigation, arrived is true exactly when the session has
\* made its arrival announcement since the last reset / destination change; and while
\* arrived is true the route is cleared (path null, pathStep 0) with the current node
\* being the destination.
C5_ArrivedIffAnnounced ==
  variant = "IN" =>
    /\ nav.arrived <=> arrivals >= 1
    /\ nav.arrived => /\ nav.path = NoPath
                      /\ nav.pathStep = 0
                      /\ nav.currentNode = nav.destinationNode
    /\ \A k \in 1..Len(stale) :
         stale[k].arrived => stale[k].path = NoPath /\ stale[k].pathStep = 0

C5_JustArrived ==
  /\ variant = "IN"
  /\ event.name = "confirm"
  /\ nav.arrived
  /\ HasArrival(out)

\* C6 as stated: when Routing and the confirmed landmark n is neither the current node
\* nor the expected next node, the event sets currentNode = n, path = bfsPath(n,
\* destinationNode) and pathStep = 0.
C6_OffRouteReplans ==
  [][ OffRoute =>
        /\ nav'.currentNode = event'.node
        /\ nav'.path = bfsPath(Edges, event'.node, nav.destinationNode)
        /\ nav'.pathStep = 0
    ]_vars

\* C6, amended: for an active landmark n the event sets currentNode = n and
\* pathStep = 0 and replaces path by bfsPath(n, destinationNode), except in
\* IntegratedNavigation when n is the washroom and the washroom is the destination:
\* there arrival is announced at once, arrived is set and path is cleared.  A landmark
\* that is not active changes nothing.
C6_OffRouteReplansOrArrives ==
  [][ /\ OffRoute =>
           /\ nav'.currentNode = event'.node
           /\ nav'.pathStep = 0
           /\ nav'.destinationNode = nav.destinationNode
           /\ IF variant = "IN" /\ event'.node = "washroom"
                                /\ nav.destinationNode = "washroom"
              THEN nav'.path = NoPath /\ nav'.arrived /\ HasArrival(out')
              ELSE /\ nav'.path = bfsPath(Edges, event'.node, nav.destinationNode)
                   /\ ~HasArrival(out')
      /\ (event'.name = "confirm" /\ event'.node \notin ActiveNodes =>
            nav' = nav /\ synth' = synth /\ out' = <<>>)
    ]_vars

C6_ReroutedToLongerPath ==
  /\ event.name = "confirm"
  /\ event.from \notin {NoNode, event.node}
  /\ nav.currentNode = event.node
  /\ nav.path = bfsPath(Edges, event.node, nav.destinationNode)
  /\ nav.pathStep = 0
  /\ Len(nav.path) >= 3
  /\ event.from = PathAt(nav.path, 1)

\* C7 as stated: when Routing and the confirmed landmark is the expected next node,
\* pathStep increases by exactly one and currentNode becomes that landmark; before the
\* final index the path is unchanged and the instruction of the new segment is
\* announced, at the final index the arrival announcement is made instead.
C7_AdvanceByOne ==
  [][ OnRoute =>
        /\ nav'.pathStep = nav.pathStep + 1
        /\ nav'.currentNode = event'.node
        /\ IF nav.pathStep + 1 < Len(nav.path) - 1
           THEN /\ nav'.path = nav.path
                /\ Instructs(out', PathAt(nav.path, nav.pathStep + 1),
                                   PathAt(nav.path, nav.pathStep + 2))
           ELSE OneSpeech(out') /\ HasArrival(out')
    ]_vars

\* C7, amended: currentNode becomes the landmark.  Before the final index pathStep
\* increases by exactly one, the path is unchanged and the instruction of the new
\* segment is announced.  At the final index the arrival announcement is made
\* instead: NavigationPage leaves pathStep at the final index of the unchanged path,
\* IntegratedNavigation clears the route (path null, pathStep 0) and sets arrived.
C7_AdvanceOrArrive ==
  [][ OnRoute =>
        /\ nav'.currentNode = event'.node
        /\ nav'.destinationNode = nav.destinationNode
        /\ IF nav.pathStep + 1 < Len(nav.path) - 1
           THEN /\ nav'.pathStep = nav.pathStep + 1
                /\ nav'.path = nav.path
                /\ Instructs(out', PathAt(nav.path, nav.pathStep + 1),
                                   PathAt(nav.path, nav.pathStep + 2))
           ELSE /\ OneSpeech(out') /\ HasArrival(out')
                /\ IF variant = "IN"
                   THEN nav'.path = NoPath /\ nav'.pathStep = 0 /\ nav'.arrived
                   ELSE nav'.path = nav.path /\ nav'.pathStep = nav.pathStep + 1
    ]_vars

C7_ArrivedByAdvancing ==
  /\ variant = "IN"
  /\ event = [name |-> "confirm", node |-> "exitdoor", from |-> "mainhall"]
  /\ nav.destinationNode = "exitdoor"
  /\ nav.arrived
  /\ nav.path = NoPath
  /\ HasArrival(out)

\* C8 as stated: a landmark n confirmed while no location is known, the destination d
\* being reachable from n, sets currentNode = n, path = bfsPath(n, d), pathStep = 0,
\* leaves the machine Routing (not Arrived) and announces the instruction of the first
\* edge path[0] -> path[1]: at once in IntegratedNavigation, in NavigationPage as
\* 'Starting at <label>.' now and the instruction from the 350 ms timeout.
C8_StartAnnouncesFirstEdge ==
  [][ /\ Starting =>
           /\ nav'.currentNode = event'.node
           /\ nav'.path = bfsPath(Edges, event'.node, nav.destinationNode)
           /\ nav'.pathStep = 0
           /\ Len(nav'.path) >= 2
           /\ IF variant = "IN"
              THEN /\ ~nav'.arrived
                   /\ Instructs(out', PathAt(nav'.path, 0), PathAt(nav'.path, 1))
              ELSE /\ Says(out', "Starting at " \o Label(event'.node) \o ".")
                   /\ nav'.pending = Append(nav.pending, now + announceDelayMs)
      /\ (/\ variant = "NP" /\ event'.name = "delayed" /\ Routing(nav)
          /\ nav.lastSpoken = "Starting at " \o Label(nav.currentNode) \o "."
          =>
          /\ nav.pathStep = 0
          /\ Len(nav.path) >= 2
          /\ Instructs(out', PathAt(nav.path, 0), PathAt(nav.path, 1)))
    ]_vars

\* C8, amended: the above holds when n is an active landmark other than the
\* destination.  When n is the destination itself, path[1] does not exist and arrival
\* is announced in place of an instruction: IntegratedNavigation goes to Arrived at
\* once (arrived set, path cleared), NavigationPage says 'Starting at <label>.' with
\* path = [n] and 'You have arrived.' from the 350 ms timeout.  The timeout fires 350 ms
\* after the confirmation when it is the only one outstanding.
C8_StartAnnouncesFirstEdgeOrArrives ==
  [][ /\ Starting =>
           /\ nav'.currentNode = event'.node
           /\ nav'.pathStep = 0
           /\ nav'.destinationNode = nav.destinationNode
           /\ IF event'.node # nav.destinationNode
              THEN /\ nav'.path = bfsPath(Edges, event'.node, nav.destinationNode)
                   /\ Len(nav'.path) >= 2
                   /\ IF variant = "IN"
                      THEN /\ ~nav'.arrived
                           /\ Instructs(out', PathAt(nav'.path, 0), PathAt(nav'.path, 1))
                      ELSE /\ OneSpeech(out')
                           /\ Says(out', "Starting at " \o Label(event'.node) \o ".")
                           /\ nav'.pending = Append(nav.pending, now + announceDelayMs)
              ELSE IF variant = "IN"
                   THEN /\ nav'.arrived /\ nav'.path = NoPath
                        /\ OneSpeech(out') /\ HasArrival(out')
                   ELSE /\ nav'.path = <<event'.node>>
                        /\ OneSpeech(out')
                        /\ Says(out', "Starting at " \o Label(event'.node) \o ".")
                        /\ nav'.pending = Append(nav.pending, now + announceDelayMs)
      /\ (/\ variant = "NP" /\ event'.name = "delayed" /\ Routing(nav)
          /\ nav.lastSpoken = "Starting at " \o Label(nav.currentNode) \o "."
          =>
          /\ nav.pathStep = 0
          /\ (Len(nav.pending) = 1 => now = nav.lastConfirmedAt + announceDelayMs)
          /\ nav'.path = nav.path /\ nav'.pathStep = 0
          /\ nav'.currentNode = nav.currentNode
          /\ IF nav.currentNode # nav.destinationNode
             THEN Instructs(out', PathAt(nav.path, 0), PathAt(nav.path, 1))
             ELSE out' = <<Speech(ArrivalMsg_NP, TRUE)>>)
    ]_vars

C8_StartedAwayFromDestination ==
  /\ event.name = "confirm"
  /\ event.from = NoNode
  /\ event.node \in ActiveNodes
  /\ event.node # nav.destinationNode
  /\ nav.currentNode = event.node
  /\ nav.pathStep = 0
  /\ Len(nav.path) >= 2
  /\ OneSpeech(out)

\* C9: re-confirming the current node mid-route leaves destinationNode, currentNode,
\* path and pathStep unchanged and re-announces the instruction of the current segment
\* path[pathStep] -> path[pathStep+1]; the state it leaves is again mid-route at the
\* same node, so any number of repetitions yields the same route state.
C9_ReconfirmReannounces ==
  [][ Reconfirm =>
        /\ nav'.destinationNode = nav.destinationNode
        /\ nav'.currentNode = nav.currentNode
        /\ nav'.path = nav.path
        /\ nav'.pathStep = nav.pathStep
        /\ nav.currentNode = PathAt(nav.path, nav.pathStep)
        /\ nav.currentNode # ExpectedNext(nav)
        /\ Instructs(out', PathAt(nav.path, nav.pathStep),
                           PathAt(nav.path, nav.pathStep + 1))
    ]_vars

C9_ReconfirmedMidRoute ==
  /\ event.name = "confirm"
  /\ event.node \in ActiveNodes
  /\ event.from = event.node
  /\ Routing(nav)
  /\ nav.currentNode = event.node
  /\ nav.pathStep >= 1
  /\ nav.pathStep < Len(nav.path) - 1
  /\ Instructs(out, PathAt(nav.path, nav.pathStep), PathAt(nav.path, nav.pathStep + 1))

\* C10: from every reachable state resetNav (the Reset button, and the end of the
\* 200 ms setup) leaves currentNode and path unset, pathStep = 0, arrived = false,
\* segmentPrompted = false, lastConfirmedAt = 0 and destinationNode as it was, and
\* issues exactly one announcement, the interrupting prompt.
C10_ResetNavClears ==
  [][ event'.name \in {"reset", "setup"} =>
        /\ nav'.currentNode = NoNode
        /\ nav'.path = NoPath
        /\ nav'.pathStep = 0
        /\ (variant = "IN" => ~nav'.arrived)
        /\ ~nav'.segmentPrompted
        /\ nav'.lastConfirmedAt = 0
        /\ nav'.destinationNode = nav.destinationNode
        /\ out' = <<Speech(ResetPrompt, TRUE)>>
        /\ synth' = <<ResetPrompt>>
    ]_vars

C10_ResetWithTimerPending ==
  /\ event.name = "reset"
  /\ nav.pending # <<>>
  /\ nav.currentNode = NoNode
  /\ nav.path = NoPath
  /\ out = <<Speech(ResetPrompt, TRUE)>>

\* the step just taken changed the React state `destination` (selector or voice)
DestinationChanged ==
  /\ event'.name \in {"select", "voice"}
  /\ destination' # destination

\* C11: a destination change to d' in any reachable state leaves destinationNode = d',
\* currentNode and path unset, pathStep = 0 and arrived = false; the closure's
\* destinationNode always equals the React state, and the next landmark confirmed is
\* routed to d' from scratch.
C11_DestinationChangeDiscardsRoute ==
  [][ /\ DestinationChanged =>
           /\ destination' = event'.node
           /\ nav'.destinationNode = event'.node
           /\ nav'.currentNode = NoNode
           /\ nav'.path = NoPath
           /\ nav'.pathStep = 0
           /\ (variant = "IN" => ~nav'.arrived /\ nav'.lastNode = NoNode)
      /\ nav'.destinationNode = destination'
      /\ (Confirming /\ nav.currentNode = NoNode /\ nav'.path # NoPath =>
            /\ nav'.path = bfsPath(Edges, event'.node, destination)
            /\ nav'.pathStep = 0)
    ]_vars

C11_ChangedMidRoute ==
  /\ event.name \in {"select", "voice"}
  /\ stale # <<>>
  /\ stale[1].path # NoPath
  /\ stale[1].destinationNode # destination
  /\ nav.destinationNode = destination
  /\ nav.currentNode = NoNode

\* the announcements of a new destination d: setDestinationHandler's and speakViaTTS's
DestinationMsgs(d) ==
  { "Destination set to " \o nodes_IN[d].label \o ". Scan the room so we can locate you.",
    "Destination set to " \o nodes_IN[d].label \o "." }

\* C12: every destination change in IntegratedNavigation, from the selector or from a
\* voice command, leaves an announcement of the new destination in the speech queue,
\* and that announcement leaves the queue only by being spoken to its end: it is not
\* cancelled or replaced by the prompt of the resetNav call that the re-run of the
\* effect schedules 200 ms later.
C12_DestinationAnnounced ==
  [][ variant = "IN" =>
        /\ (DestinationChanged =>
              synth' # <<>> /\ Head(synth') \in DestinationMsgs(destination'))
        /\ (/\ synth # <<>>
            /\ Head(synth) \in DestinationMsgs(destination)
            /\ (synth' = <<>> \/ Head(synth') # Head(synth))
            => event'.name = "uttered")
    ]_vars

\* o is what announceNextInstruction says for the route state of closure n: nothing
\* without a route, the arrival at the final index, else the current instruction
AnnouncesCurrent(o, n) ==
  IF n.path = NoPath \/ n.currentNode = NoNode THEN o = <<>>
  ELSE IF n.pathStep < Len(n.path) - 1
       THEN Instructs(o, PathAt(n.path, n.pathStep), PathAt(n.path, n.pathStep + 1))
       ELSE OneSpeech(o) /\ HasArrival(o)

Observing == event'.name \in {"sighting", "confirm"}

\* acceptStable(candidate) would return true now
Stable == nav.candidate # NoNode /\ now - nav.candidateSince >= stableMs

\* C16: acceptStable(id) at time now returns false and sets candidate = id,
\* candidateSince = now when id differs from the candidate; when id is the candidate it
\* returns true exactly when now - candidateSince >= 500 and leaves both unchanged.
\* Nothing else in a run of the effect writes candidate or candidateSince and the clock
\* does not go back, so once an id is stable every later observation of it is accepted
\* until a different id is observed.
C16_AcceptStable ==
  [][ /\ (Observing /\ event'.node # nav.candidate =>
            /\ event'.name = "sighting"
            /\ nav'.candidate = event'.node
            /\ nav'.candidateSince = now)
      /\ (Observing /\ event'.node = nav.candidate =>
            /\ (event'.name = "confirm" <=> now - nav.candidateSince >= stableMs)
            /\ nav'.candidate = nav.candidate
            /\ nav'.candidateSince = nav.candidateSince)
      /\ (~Observing /\ ~DestinationChanged =>
            /\ nav'.candidate = nav.candidate
            /\ nav'.candidateSince = nav.candidateSince)
      /\ now' >= now
      /\ (/\ Stable
          /\ ~DestinationChanged
          /\ ~(Observing /\ event'.node # nav.candidate)
          => Stable' /\ (Observing => event'.name = "confirm"))
    ]_vars

C16_AcceptedAgainLater ==
  /\ event.name = "confirm"
  /\ nav.candidate = event.node
  /\ now - nav.candidateSince > stableMs
  /\ event.from = event.node

\* C17 as stated: a targetFound event for a landmark outside ACTIVE_NODES leaves
\* candidate and candidateSince unchanged.
C17_InactiveSkipsDebouncer ==
  [][ Observing /\ event'.node \notin ActiveNodes =>
        /\ nav'.candidate = nav.candidate
        /\ nav'.candidateSince = nav.candidateSince ]_vars

\* C18: a targetFound event for a landmark outside ACTIVE_NODES changes nothing of the
\* navigation state, leaves the speech in flight and the pending timeouts alone and
\* produces no tone, vibration or announcement, also once acceptStable accepts it.
\* (Every target index that has a listener is mapped by indexToNode.)
C18_InactiveIsNoOp ==
  [][ Observing /\ event'.node \notin ActiveNodes =>
        /\ nav'.destinationNode = nav.destinationNode
        /\ nav'.currentNode = nav.currentNode
        /\ nav'.path = nav.path
        /\ nav'.pathStep = nav.pathStep
        /\ nav'.lastConfirmedAt = nav.lastConfirmedAt
        /\ nav'.segmentPrompted = nav.segmentPrompted
        /\ nav'.lastSpoken = nav.lastSpoken
        /\ nav'.pending = nav.pending
        /\ synth' = synth
        /\ out' = <<>>
        /\ arrivals' = arrivals ]_vars

C18_InactiveStableWhileRouting ==
  /\ event.name = "confirm"
  /\ event.node \notin ActiveNodes
  /\ nav.candidate = event.node
  /\ now - nav.candidateSince >= stableMs
  /\ nav.path # NoPath
  /\ synth # <<>>

\* the confirmation just handled was not ignored by onNodeConfirmed
NonIgnored == Confirming /\ ~(variant = "IN" /\ nav.arrived)

\* in o the tone and the vibration come before every speech
CuesFirst(o) ==
  \E i, j \in 1..Len(o) :
    /\ o[i] = Beep
    /\ o[j] = Vibrate
    /\ \A k \in Speeches(o) : i < k /\ j < k

\* C19 as stated: every confirmation that is not ignored triggers tone and vibration
\* before its speech and leaves lastConfirmedAt = now and segmentPrompted = false.
C19_CuesThenIdleReset ==
  [][ NonIgnored =>
        /\ CuesFirst(out')
        /\ nav'.lastConfirmedAt = now
        /\ nav'.segmentPrompted = FALSE ]_vars

\* C19, amended: every confirmation that is not ignored triggers tone and vibration
\* before its speech, speaks, and leaves lastConfirmedAt = now; segmentPrompted is
\* false afterwards unless the confirmation completes the arrival in
\* IntegratedNavigation, where finishArrival leaves it true.
C19_CuesThenIdleResetUnlessArrived ==
  [][ NonIgnored =>
        /\ CuesFirst(out')
        /\ Speeches(out') # {}
        /\ nav'.lastConfirmedAt = now
        /\ nav'.segmentPrompted = (variant = "IN" /\ nav'.arrived) ]_vars

C19_ConfirmationCompletedArrival ==
  /\ event.name = "confirm"
  /\ event.node \in ActiveNodes
  /\ variant = "IN"
  /\ nav.arrived
  /\ nav.segmentPrompted
  /\ nav.lastConfirmedAt = now
  /\ CuesFirst(out)
  /\ HasArrival(out)

\* C20: between two consecutive confirmations that are not ignored, and after the last
\* one, the polling timer emits at most one idle prompt, however often it fires.
C20_AtMostOneIdlePrompt == nav.prompts <= 1

C20_TimerFiredAfterPrompt ==
  /\ event.name = "tick"
  /\ nav.prompts = 1
  /\ nav.segmentPrompted
  /\ out = <<>>
  /\ now >= nav.lastConfirmedAt + movementPromptDelayMs + movementPromptPeriodMs
  /\ nav.lastConfirmedAt >= LateSightFrom

\* the text of the idle prompt of the mounted variant
IdlePromptMsg ==
  IF variant = "IN" THEN "Keep moving forward with caution."
                    ELSE "Keep moving forward carefully."

\* the step just taken was a firing of the polling timer that spoke
Prompting == event'.name = "tick" /\ out' # <<>>

\* C21: in IntegratedNavigation the polling timer speaks only the idle prompt, and only
\* when a current node and a path are set, arrived is false, the segment has not been
\* prompted and at least 4500 ms have passed since lastConfirmedAt, which is the time
\* of the most recent confirmation: it changes only when a confirmation that is not
\* ignored sets it to the current time or when the route is cleared (then it is 0 and
\* currentNode is null).
C21_IdlePromptOnlyWhenRouting ==
  [][ variant = "IN" =>
        /\ (Prompting =>
              /\ out' = <<Speech(IdlePromptMsg, FALSE)>>
              /\ Routing(nav)
              /\ ~nav.arrived
              /\ ~nav.segmentPrompted
              /\ now - nav.lastConfirmedAt >= movementPromptDelayMs)
        /\ (NonIgnored => nav'.lastConfirmedAt = now)
        /\ (nav'.lastConfirmedAt # nav.lastConfirmedAt =>
              \/ NonIgnored
              \/ nav'.lastConfirmedAt = 0 /\ nav'.currentNode = NoNode)
    ]_vars

C21_PromptedWhileRouting ==
  /\ variant = "IN"
  /\ event.name = "tick"
  /\ out = <<Speech(IdlePromptMsg, FALSE)>>
  /\ Routing(nav)
  /\ ~nav.arrived
  /\ now - nav.lastConfirmedAt >= movementPromptDelayMs

\* C22 as stated: in NavigationPage the polling timer speaks the idle prompt only while
\* the route is being traversed, never once pathStep is the final index.
C22_NoIdlePromptAfterArrival ==
  [][ variant = "NP" /\ Prompting =>
        nav.path # NoPath /\ nav.pathStep < Len(nav.path) - 1 ]_vars

\* C23: the polling timer speaks the idle prompt with interrupt = false: the step
\* cancels nothing, every utterance playing or queued stays in the queue in its place
\* and the prompt is appended behind them (IntegratedNavigation speaks it only when the
\* queue is empty).
C23_IdlePromptDoesNotInterrupt ==
  [][ /\ (Prompting =>
            /\ out' = <<Speech(IdlePromptMsg, FALSE)>>
            /\ synth' = Append(synth, IdlePromptMsg)
            /\ (variant = "IN" => synth = <<>>))
      /\ (event'.name = "tick" /\ out' = <<>> => synth' = synth)
    ]_vars

C23_PromptQueuedBehindSpeech ==
  /\ event.name = "tick"
  /\ out = <<Speech(IdlePromptMsg, FALSE)>>
  /\ Len(synth) >= 2
  /\ synth[Len(synth)] = IdlePromptMsg
  /\ synth[1] # IdlePromptMsg

\* ---- the planner on arbitrary graphs ----
Targets(E, n) == {EdgesOf(E, n)[i].to : i \in 1..Len(EdgesOf(E, n))}

\* E declares the directed edge a -> b
HasEdge(E, a, b) == b \in Targets(E, a)

\* consecutive nodes of p are joined by declared edges
IsWalk(E, p) == \A i \in 1..(Len(p) - 1) : HasEdge(E, p[i], p[i + 1])

\* least number of edges from a node of S to goal, plus k; -1 if there is no walk
RECURSIVE Distance(_, _, _, _)
Distance(E, S, goal, k) ==
  IF goal \in S THEN k
  ELSE LET T == S \cup UNION {Targets(E, n) : n \in S}
       IN IF T = S THEN -1 ELSE Distance(E, T, goal, k + 1)

Dist(E, start, goal) == Distance(E, {start}, goal, 0)

\* every walk from start to goal with the least number of edges
ShortestWalks(E, start, goal) ==
  LET d == Dist(E, start, goal)
  IN IF d < 0 THEN {}
     ELSE {p \in [1..(d + 1) -> BfsNodes] :
             p[1] = start /\ p[d + 1] = goal /\ IsWalk(E, p)}

\* for each step of the walk p, the position of its edge in the declaring node's list
Positions(E, p) ==
  [i \in 1..(Len(p) - 1) |-> FindEdge(EdgesOf(E, p[i]), 1, p[i + 1])]

\* a comes before b, or is b, in the lexicographic order (same length)
LexLeq(a, b) ==
  \/ \A i \in DOMAIN a : a[i] = b[i]
  \/ \E i \in DOMAIN a : a[i] < b[i] /\ \A j \in 1..(i - 1) : a[j] = b[j]

BfsDone == call.fn = "bfsPath" /\ call.done

\* C24: when goal is reachable from start, bfsPath returns a walk of declared edges
\* that begins with start, ends with goal and has as many edges as the distance.
C24_BfsPathIsShortest ==
  BfsDone /\ Dist(call.edges, call.start, call.goal) >= 0 =>
    /\ call.path # NoPath
    /\ call.path[1] = call.start
    /\ call.path[Len(call.path)] = call.goal
    /\ IsWalk(call.edges, call.path)
    /\ Len(call.path) - 1 = Dist(call.edges, call.start, call.goal)

C24_ThreeEdgesAroundCycle ==
  /\ BfsDone
  /\ Len(call.path) = 4
  /\ \E n \in BfsNodes : Len(EdgesOf(call.edges, n)) = 2
  /\ HasEdge(call.edges, call.path[2], call.start)

\* C25: bfsPath returns null exactly when no walk along the directed edges leads from
\* start to goal; the call returns on every graph, cyclic or not.
C25_NullIffUnreachable ==
  BfsDone => (call.path = NoPath <=> Dist(call.edges, call.start, call.goal) = -1)

C25_EdgeAgainstDirection ==
  /\ BfsDone
  /\ call.path = NoPath
  /\ HasEdge(call.edges, call.goal, call.start)
  /\ \E n \in BfsNodes \ {call.start} :
       HasEdge(call.edges, call.start, n) /\ HasEdge(call.edges, n, call.start)

\* C26: bfsPath(x, x) is [x], whatever edges x has.
C26_PathToSelf ==
  BfsDone /\ call.start = call.goal => call.path = <<call.start>>

C26_SelfWithoutEdges ==
  /\ BfsDone
  /\ call.start = call.goal
  /\ call.start \notin DOMAIN call.edges
  /\ call.path = <<call.start>>

\* C27: among the shortest walks bfsPath returns the one the FIFO traversal finds
\* first: the one whose sequence of edge positions (declaration order, node by node
\* from start) is lexicographically least.
C27_FirstDiscoveredPath ==
  BfsDone /\ call.path # NoPath =>
    /\ Len(call.path) - 1 = Dist(call.edges, call.start, call.goal)
    /\ IsWalk(call.edges, call.path)
    /\ \A p \in ShortestWalks(call.edges, call.start, call.goal) :
         LexLeq(Positions(call.edges, call.path), Positions(call.edges, p))

C27_SeveralShortestWalks ==
  /\ BfsDone
  /\ Len(call.path) = 3
  /\ Cardinality(ShortestWalks(call.edges, call.start, call.goal)) >= 2
  /\ call.path[2] = EdgesOf(call.edges, call.start)[1].to

\* the keyword table entries that occur in the lower-cased transcript
Occurring(rawTranscript) ==
  {i \in 1..Len(keywordMap) : includes(toLowerCase(rawTranscript), keywordMap[i].keyword)}

VoiceDone == call.fn = "onresult" /\ call.done

\* C28: the match is the destination of the first entry of the keyword table, in
\* declaration order, whose keyword occurs in the lower-cased transcript, and there is
\* no match when none occurs; "please take me to the bathroom" matches washroom.
C28_FirstKeywordInTableOrder ==
  VoiceDone =>
    /\ (Occurring(call.rawTranscript) = {} => call.matched = NoNode)
    /\ (Occurring(call.rawTranscript) # {} =>
          \E i \in Occurring(call.rawTranscript) :
            /\ \A j \in Occurring(call.rawTranscript) : i <= j
            /\ call.matched = keywordMap[i].dest)
    /\ (call.rawTranscript = <<"p", "l", "e", "a", "s", "e", " ", "t", "a", "k", "e", " ", "m", "e", " ", "t", "o", " ", "t", "h", "e", " ", "b", "a", "t", "h", "r", "o", "o", "m">>
          => call.matched = "washroom")

C28_LaterInUtteranceWins ==
  /\ VoiceDone
  /\ call.rawTranscript = <<"e", "l", "e", "v", "a", "t", "o", "r", " ", "w", "a", "s", "h", "r", "o", "o", "m">>
  /\ call.matched = "washroom"

\* C29 as stated: after every utterance that matches a keyword the navigation state is
\* Unrouted with arrived = false and the destination is the matched one.
C29_VoiceMatchResets ==
  [][ variant = "IN" /\ event'.name = "voice" =>
        /\ destination' = event'.node
        /\ nav'.destinationNode = event'.node
        /\ nav'.currentNode = NoNode
        /\ nav'.path = NoPath
        /\ ~nav'.arrived ]_vars

\* C29, amended: an utterance matching a destination other than the current one makes
\* it the destination and leaves the navigation state Unrouted with arrived = false; an
\* utterance matching the current destination changes nothing and says nothing.
C29_VoiceMatchResetsIfDifferent ==
  [][ variant = "IN" /\ event'.name = "voice" =>
        /\ destination' = event'.node
        /\ nav'.destinationNode = event'.node
        /\ (event'.node # destination =>
              /\ nav'.currentNode = NoNode
              /\ nav'.path = NoPath
              /\ nav'.pathStep = 0
              /\ ~nav'.arrived)
        /\ (event'.node = destination =>
              /\ nav' = nav
              /\ synth' = synth
              /\ stale' = stale
              /\ out' = <<>>) ]_vars

C29_VoiceChangedAfterArrival ==
  /\ variant = "IN"
  /\ event.name = "voice"
  /\ destination = event.node
  /\ nav.destinationNode = event.node
  /\ nav.currentNode = NoNode
  /\ ~nav.arrived
  /\ stale # <<>>
  /\ stale[1].arrived
  /\ stale[1].destinationNode # destination

\* the request carries a key, a readable body and a text that is not empty
KeyPresent(req) == req.apiKey.type = "string" /\ req.apiKey.value # ""

BodyRead(req) == req.body.kind \in {"primitive", "object"}

TextMissingOrEmpty(req) ==
  \/ req.body.kind = "primitive"
  \/ req.body.text.type \in {"undefined", "null"}
  \/ req.body.text.type = "string" /\ req.body.text.value = ""

TextPresent(req) ==
  /\ req.body.kind = "object"
  /\ \/ req.body.text.type = "string" /\ req.body.text.value # ""
     \/ req.body.text.type = "number" /\ req.body.text.value # "0"

JsonError(res, status) ==
  res.status = status /\ res.contentType = "application/json" /\ res.error # ""

\* C30: POST never throws and always answers: 500 with a JSON error when the key is
\* missing, before the body is read; 400 with a JSON error when the text is missing or
\* empty; the upstream status with a JSON error when the upstream answer is not ok; 500
\* with a JSON error when anything throws; audio/mpeg only when the upstream call
\* succeeded; and no upstream request without a key and a non-empty text.
C30_PostAlwaysResponds ==
  call.fn = "POST" /\ call.done =>
    LET req == call.req
        res == call.res
        fetched == \E i \in 1..Len(res.effects) : res.effects[i] = "fetch"
    IN /\ ~res.threw
       /\ res.status >= 200 /\ res.status <= 599
       /\ res.contentType \in {"application/json", "audio/mpeg"}
       /\ (~KeyPresent(req) => JsonError(res, 500) /\ res.effects = <<>>)
       /\ (KeyPresent(req) /\ BodyRead(req) /\ TextMissingOrEmpty(req) =>
             JsonError(res, 400) /\ ~fetched)
       /\ (fetched /\ req.upstream.kind = "response" /\ ~Ok(req.upstream)
             /\ ~req.readFails => JsonError(res, req.upstream.status))
       /\ (KeyPresent(req) /\
             (\/ ~BodyRead(req)
              \/ fetched /\ (req.upstream.kind = "rejects" \/ req.readFails))
             => JsonError(res, 500))
       /\ (res.contentType = "audio/mpeg" =>
             /\ fetched
             /\ req.upstream.kind = "response" /\ Ok(req.upstream)
             /\ res.status = 200 /\ res.error = "")
       /\ (fetched => KeyPresent(req) /\ TextPresent(req))

C30_UpstreamRefused ==
  /\ call.fn = "POST" /\ call.done
  /\ call.req.upstream.status = 401
  /\ call.res.status = 401
  /\ call.res.contentType = "application/json"
  /\ call.res.effects = <<"req.json", "fetch", "response.text">>

\* p visits no landmark twice
NoRepeat(p) == \A i, j \in 1..Len(p) : i # j => p[i] # p[j]

\* every consecutive pair of p is a declared edge
AlongEdges(p) ==
  \A i \in 1..(Len(p) - 1) :
    \E k \in 1..Len(EdgesOf(Edges, p[i])) : EdgesOf(Edges, p[i])[k].to = p[i + 1]

\* C33: in both variants, whenever a session (live or torn down) has a path, it holds the
\* current node at index pathStep, ends at destinationNode, follows declared edges
\* and visits no landmark twice.
C33_PathWellFormed ==
  \A n \in {nav} \cup SeqRange(stale) :
    n.path # NoPath =>
      /\ InRange(n)
      /\ PathAt(n.path, n.pathStep) = n.currentNode
      /\ n.path[Len(n.path)] = n.destinationNode
      /\ AlongEdges(n.path)
      /\ NoRepeat(n.path)

\* a re-planned route of three landmarks, one step in
C33_SecondStepOfLongRoute ==
  /\ nav.path # NoPath
  /\ Len(nav.path) >= 3
  /\ nav.pathStep = 1
  /\ event.name = "confirm"

\* the destinations a voice command can produce
VoiceDestinations == {keywordMap[i].dest : i \in 1..Len(keywordMap)}

NoRouteMsgs == {"No route found from here.", "I cannot find a route from here."}

\* C34: in both landmark graphs bfsPath finds a path from every active landmark to
\* every destination that the <select> or a voice command can set (the tables are
\* constant, so this is evaluated once, where the component is mounted), and no step
\* of any session, live or torn down, announces that there is no route.
C34_RouteAlwaysFound ==
  /\ (event.name = "mount" /\ variant = "IN" =>
        \A s \in ACTIVE_NODES_IN : \A d \in DestOptions_IN \cup VoiceDestinations :
          bfsPath_IN(s, d) # NoPath)
  /\ (event.name = "mount" /\ variant = "NP" =>
        \A s \in ACTIVE_NODES_NP : \A d \in DestOptions_NP :
          bfsPath_NP(s, d) # NoPath)
  /\ \A i \in 1..Len(out) : out[i].msg \notin NoRouteMsgs
  /\ nav.lastSpoken \notin NoRouteMsgs

\* a route was re-planned from an off-route landmark after the destination had been
\* changed
C34_ReroutedAfterDestinationChange ==
  /\ reruns > 0
  /\ event.name = "confirm"
  /\ event.from # NoNode
  /\ event.from # event.node
  /\ nav.path # NoPath
  /\ nav.pathStep = 0
  /\ nav.path[1] = event.node
  /\ Len(nav.path) >= 3

\* C35: in IntegratedNavigation, a confirmation of the destination landmark itself
\* while no current location is known ends, in that same step, with arrived = TRUE,
\* exactly one announcement, which is the arrival announcement of the destination, no
\* movement instruction now or scheduled, and a state that is not Routing.
C35_StartAtDestinationArrives ==
  [][ variant = "IN" /\ Confirming /\ ~nav.arrived /\ nav.currentNode = NoNode
        /\ event'.node = nav.destinationNode
      =>
        /\ nav'.arrived
        /\ nav'.currentNode = nav.destinationNode
        /\ ~Routing(nav')
        /\ OneSpeech(out')
        /\ CountArrivals(out') = 1
        /\ Says(out', ArrivalMsg_IN(nav.destinationNode) \o " Choose next destination.")
        /\ nav'.pending = nav.pending
        /\ arrivals' = arrivals + 1 ]_vars

\* the washroom, chosen as the destination, was the first landmark confirmed
C35_FirstSightIsDestination ==
  /\ variant = "IN"
  /\ event.name = "confirm"
  /\ event.from = NoNode
  /\ event.node = "washroom"
  /\ nav.destinationNode = "washroom"
  /\ nav.arrived
  /\ nav.path = NoPath

\* C36: once the cleanup of the navigation effect has run, no callback that the
\* torn-down session had scheduled -- its 700 ms interval, its setup timeout, a pending
\* 350 ms timeout -- announces anything or changes the status text.
C36_TornDownSessionSilent ==
  [][ /\ \A k \in 1..Len(stale') :
           stale'[k].movementPromptInterval = NoTimer /\ stale'[k].setupTimeout = NoTimer
      /\ (event'.name = "stale" => out' = <<>> /\ synth' = synth) ]_vars

\* the debouncer's state
Debouncer(n) == <<n.candidate, n.candidateSince>>

\* C37: resetNav and setDestinationHandler leave the debouncer's candidate and
\* candidateSince as they were; so the first target-found event after a reset, if it is
\* for the landmark that has been the candidate for at least 500 ms, is accepted at
\* once, and an active landmark is then confirmed as the new current node.
C37_ResetKeepsDebouncer ==
  [][ /\ (event'.name \in {"reset", "setup"} => Debouncer(nav') = Debouncer(nav))
      /\ (event'.name = "select" /\ nav.attached =>
            Debouncer((IF variant = "IN"
                       THEN setDestinationHandler_IN(World, event'.node)
                       ELSE setDestinationHandler_NP(World, event'.node)).nav)
              = Debouncer(nav))
      /\ (event.name = "reset" /\ event'.name \in {"sighting", "confirm"}
            /\ event'.node = nav.candidate
            /\ now - nav.candidateSince >= stableMs
          =>
            /\ event'.name = "confirm"
            /\ Debouncer(nav') = Debouncer(nav)
            /\ (event'.node \in ActiveNodes =>
                  nav'.currentNode = event'.node /\ nav'.lastConfirmedAt = now)) ]_vars

\* a landmark confirmed right after a reset that came within 350 ms of its previous
\* confirmation: no new stability window was waited for
C37_ConfirmedRightAfterReset ==
  /\ event.name = "confirm"
  /\ event.from = NoNode
  /\ event.node = nav.candidate
  /\ nav.doomed > 0
  /\ nav.pending # <<>>
  /\ nav.lastConfirmedAt = now
  /\ nav.candidateSince + stableMs <= now

\* C31: when a request to /api/tts made by ObjectDetection fails (fetch rejects, the
\* response is not ok, or the audio cannot be played), the error state of the component
\* is not empty afterwards, so that the banner shows, and the detect loops keep running.
C31_TtsFailureShowsBanner ==
  [][ objectDetection'.step = "ttsError" =>
        /\ objectDetection'.error # ""
        /\ objectDetection'.loops = objectDetection.loops ]_vars

\* the frame shows no object that passes the score filter and is Very Close
NoVeryClose(predictions) ==
  \A i \in 1..Len(predictions) :
    predictions[i].score > minScore => estimateDistance(predictions[i]) # "Very Close"

\* C32: two proximity warnings sent by ObjectDetection are at least 3000 ms apart, only
\* a detect pass sends one, and no detect pass on a frame without a Very Close object
\* changes lastProximityAlert, the start of the 3-second window.
C32_WarningsThreeSecondsApart ==
  [][ /\ (Len(objectDetection'.warnedAt) = 2 =>
            objectDetection'.warnedAt[2] - objectDetection'.warnedAt[1] >= proximityAlertMs)
      /\ (objectDetection'.warnedAt # objectDetection.warnedAt =>
            /\ objectDetection'.step = "detect"
            /\ objectDetection'.lastProximityAlert = Date_now(objectDetection))
      /\ (objectDetection'.lastProximityAlert # objectDetection.lastProximityAlert =>
            ~\E b \in BOOLEAN : \E f \in Frames : DetectFrame(b, f) /\ NoVeryClose(f)) ]_vars

\* a second warning, sent exactly 3000 ms after the first
C32_SecondWarningAfterWindow ==
  /\ objectDetection.step = "detect"
  /\ Len(objectDetection.warnedAt) = 2
  /\ objectDetection.warnedAt[2] = objectDetection.warnedAt[1] + proximityAlertMs
  /\ objectDetection.warnedAt[2] = objectDetection.clock
  /\ \E i \in 1..Len(objectDetection.requested) : IsWarning(objectDetection.requested[i])

\* C40: at most one request to /api/tts of ObjectDetection is under way or playing at
\* any time.
C40_OneUtteranceInFlight ==
  objectDetection.fetching + objectDetection.playing <= 1

\* C38: once stopListening has run, and until startListening runs again, no speech
\* recognition object is created and isListening stays false.
C38_StopStaysStopped ==
  [][ voiceController.stopped /\ voiceController'.step # "startListening" =>
        /\ Len(voiceController'.sessions) = Len(voiceController.sessions)
        /\ ~voiceController'.isListening ]_vars

\* the recognition objects that are started and have neither failed nor been stopped
LiveSessions(v) == {s \in 1..Len(v.sessions) : v.sessions[s].state \in {"starting", "listening"}}

\* C39: the recognition sessions that are active and the restarts that are scheduled
\* never number more than one.
C39_OneSessionActiveOrScheduled ==
  Cardinality(LiveSessions(voiceController)) + Len(voiceController.timers) <= 1

====
